---- MODULE Spec2Model ----
(***************************************************************************)
(* Playback core of simple-visual-novel: the VNEngine scene navigation,    *)
(* the StateManager history, the cancellable text effects and the          *)
(* DOMRenderer action-playback state machine, including the promise job    *)
(* queue on which the renderer's async methods are suspended.              *)
(***************************************************************************)
EXTENDS Integers, Sequences, FiniteSets, TLC

\* null / undefined for handles, character references and scene ids
Null == 0

\* ------------------------------------------------------------------------
\* Bounds
\* ------------------------------------------------------------------------
\* longest script (number of scenes) drawn in Init
MaxScenes == 2
\* longest script of an engine that the page drives by calls alone
MaxEngineScenes == 3
\* largest script drawn in Init, counted in scenes plus actions
MaxSize == 4
\* advance signals accepted once the action index has run past the log
MaxOverrun == 1
\* most effects the page starts itself on the text element
MaxEffects == 2
\* most calls the page makes (cancel(), engine and state manager methods)
MaxCalls == 2
\* most actions the author queues in the scenes being written
MaxEntries == 2
\* most calls of jumpTo and next the page makes during playback
MaxJumps == 1
\* most actions the author queues in a scene that is then played
MaxReplayed == 3
\* assignments of an effect's cancelled flag by the page
MaxWrites == 1

\* ------------------------------------------------------------------------
\* Authored input: characters, actions, scenes, scripts
\* ------------------------------------------------------------------------
\* Character objects as they stand when playback starts (name, image);
\* the empty string is an unset image.
Characters ==
  << [name |-> "A", image |-> "a.png"], [name |-> "B", image |-> ""] >>

\* an optional field or argument that was not given, in the objects the
\* author handles
Undefined == "undefined"

\* SceneAction: every optional field present, Null / "" / <<>> when unset.
\* text is the sequence of the characters of the string.
SceneAction(ty, c, txt, eff, img) ==
  [type |-> ty, character |-> c, text |-> txt, effect |-> eff, image |-> img]

Show(c) == SceneAction("show", c, <<>>, "", "")
Hide(c) == SceneAction("hide", c, <<>>, "", "")
SetImage(c, img) == SceneAction("setImage", c, <<>>, "", img)
Dialogue(c, txt, eff) == SceneAction("dialogue", c, txt, eff, "")

\* Scene: display options and the action log
Scene(bg, acts) == [background |-> bg, actions |-> acts]

SceneList ==
  << Scene("", << >>),
     Scene("bg.png", << Show(1), Dialogue(1, <<"h", "i">>, "typewriter") >>),
     Scene("", << Dialogue(2, <<"k">>, "fade"),
                  Dialogue(1, <<"y", "o">>, "typewriter"),
                  Dialogue(2, <<"z">>, "") >>),
     Scene("c.png", << Show(2), SetImage(2, "b.png"), Hide(2) >>),
     Scene("", << SetImage(1, "a2.png"), Show(1), Dialogue(1, <<"w">>, "") >>),
     Scene("", << Show(Null), Dialogue(1, <<"m">>, "") >>),
     Scene("", << Dialogue(1, << >>, "typewriter"), Hide(1) >>),
     Scene("", << Show(1) >>) >>

SceneLogs == { SceneList[i] : i \in 1..Len(SceneList) }

RECURSIVE SeqsUpTo(_, _)
SeqsUpTo(S, n) ==
  IF n = 0 THEN { << >> }
  ELSE LET shorter == SeqsUpTo(S, n - 1)
       IN  shorter \cup { Append(q, x) : q \in { r \in shorter : Len(r) = n - 1 }, x \in S }

RECURSIVE Size(_)
Size(sc) ==
  IF sc = << >> THEN 0 ELSE 1 + Len(Head(sc).actions) + Size(Tail(sc))

\* Script: scenes in insertion order; a scene's id is its position
Scripts ==
  { sc \in SeqsUpTo(SceneLogs, MaxScenes) :
      Len(sc) >= 1 /\ Size(sc) <= MaxSize }

VARIABLES
  script,              \* Script._scenes
  currentSceneId,      \* StateManager._state._currentSceneId
  sceneHistory,        \* StateManager._state.sceneHistory
  currentActionIndex,  \* DOMRenderer.currentActionIndex
  isProcessing,        \* DOMRenderer.isProcessing
  currentAnimation,    \* DOMRenderer.currentAnimation (animation id or Null)
  characterElements,   \* DOMRenderer.characterElements / character layer
  background,          \* backgroundLayer.style.backgroundImage
  speakerName,         \* speakerName.textContent
  dialogueText,        \* dialogueText.textContent
  opacity,             \* dialogueText.style.opacity
  anims,               \* effects created by typewriter() / fadeIn()
  promises,            \* promises with registered reactions
  microtasks,          \* the promise job queue (FIFO)
  variables,           \* StateManager._state.variables
  listeners,           \* VNEngine.listeners: event type -> listeners in order
  throwers,            \* the page's listeners whose body throws
  heard,               \* history: the last step's calls of page listeners
  sceneObjects,        \* the Scene objects the author has: _id, _actions
  characterObjects,    \* the Character objects the author has
  sceneList,           \* Script._scenes of the script being written
  sceneMap,            \* Script.sceneMap of the script being written
  imagesThen,          \* history: per scene object and action, the image
                       \* the action's character had when it was queued
  events,              \* history: the events the last step passed to emitEvent
  outcome,             \* history: how the last call from the page ended
  calls,               \* history: number of calls the page has made
  assigns,             \* history: the last step's scene id assignments
  log,                 \* history: scene changes and processed actions
  lastStep             \* history: the kind of the step taken last

vars == << script, currentSceneId, sceneHistory, currentActionIndex,
           isProcessing, currentAnimation, characterElements, background,
           speakerName, dialogueText, opacity, anims, promises, microtasks,
           variables, listeners, throwers, heard, sceneObjects,
           characterObjects, sceneList, sceneMap, imagesThen, events,
           outcome, calls, assigns, log, lastStep >>

\* The variables as one record, threaded through the synchronous code of a
\* step; the step's own events and assignments are gathered from empty,
\* and thrown tells whether an exception is unwinding the code that runs:
\* none is when a task starts
St ==
  [ script |-> script, currentSceneId |-> currentSceneId,
    sceneHistory |-> sceneHistory, currentActionIndex |-> currentActionIndex,
    isProcessing |-> isProcessing, currentAnimation |-> currentAnimation,
    characterElements |-> characterElements, background |-> background,
    speakerName |-> speakerName, dialogueText |-> dialogueText,
    opacity |-> opacity, anims |-> anims, promises |-> promises,
    microtasks |-> microtasks, variables |-> variables,
    listeners |-> listeners, throwers |-> throwers, heard |-> << >>,
    sceneObjects |-> sceneObjects, characterObjects |-> characterObjects,
    sceneList |-> sceneList, sceneMap |-> sceneMap,
    imagesThen |-> imagesThen,
    events |-> << >>, outcome |-> outcome, calls |-> calls, assigns |-> << >>,
    log |-> log, thrown |-> FALSE ]

\* ------------------------------------------------------------------------
\* Script and engine lookups
\* ------------------------------------------------------------------------
\* F applied to the value of v, which is computed once
Let(v, F(_)) == CHOOSE r \in { F(y) : y \in { v } } : TRUE

getScene(s, id) == IF id \in 1..Len(s.script) THEN id ELSE Null
getSceneIndex(s, id) == IF id \in 1..Len(s.script) THEN id - 1 ELSE -1
getSceneByIndex(s, i) == IF i + 1 \in 1..Len(s.script) THEN i + 1 ELSE Null
\* VNEngine.currentScene
currentScene(s) ==
  IF s.currentSceneId = Null THEN Null ELSE getScene(s, s.currentSceneId)
actionsOf(s, id) == s.script[id].actions

\* how a call op(arg) stands when it starts: it returns unless it throws
Called(op, arg) ==
  [op |-> op, arg |-> arg, kind |-> "returned", ret |-> "", id |-> Null,
   by |-> ""]

\* StateManager.getVariable: Null for a key never set (undefined)
getVariable(s, k) == IF k \in DOMAIN s.variables THEN s.variables[k] ELSE Null

\* StateManager.setVariable
storeVariable(s, k, v) == [s EXCEPT !.variables = (k :> v) @@ @]

\* clearHistory that also resets the variables
clearHistory_dropsVariables(s) ==
  [s EXCEPT !.sceneHistory = << >>, !.variables = << >>,
            !.assigns = Append(@, [op |-> "clear", prev |-> Null, id |-> Null])]

\* StateManager.clearHistory
clearHistory(s) ==
  [s EXCEPT !.sceneHistory = << >>,
            !.assigns = Append(@, [op |-> "clear", prev |-> Null, id |-> Null])]

\* setter that records the previous id also when it is null
setCurrentSceneId_pushesAlways(s, id) ==
  [s EXCEPT !.sceneHistory = Append(@, s.currentSceneId),
            !.currentSceneId = id,
            !.assigns = Append(@, [op |-> "set", prev |-> s.currentSceneId,
                                   id |-> id])]

\* setter that records the previous id only when the id changes
setCurrentSceneId_unlessSame(s, id) ==
  [s EXCEPT !.sceneHistory =
              IF s.currentSceneId # Null /\ s.currentSceneId # id
              THEN Append(@, s.currentSceneId) ELSE @,
            !.currentSceneId = id,
            !.assigns = Append(@, [op |-> "set", prev |-> s.currentSceneId,
                                   id |-> id])]

\* StateManager: set currentSceneId
setCurrentSceneId(s, id) ==
  [s EXCEPT !.sceneHistory =
              IF s.currentSceneId # Null THEN Append(@, s.currentSceneId) ELSE @,
            !.currentSceneId = id,
            !.assigns = Append(@, [op |-> "set", prev |-> s.currentSceneId,
                                   id |-> id])]

\* ------------------------------------------------------------------------
\* Promises and the job queue
\* ------------------------------------------------------------------------
Job(t, p, src, k) == [t |-> t, p |-> p, src |-> src, k |-> k]
\* PromiseReactionJob running the rest of an async function after an await
ContJob(k, p) == Job("cont", p, Null, k)
\* PromiseReactionJob resolving promise p
ResolveJob(p) == Job("resolve", p, Null, "")
\* NewPromiseResolveThenableJob: p follows src
ThenableJob(p, src) == Job("thenable", p, src, "")

FreshId(s) == CHOOSE i \in 1..(Cardinality(DOMAIN s.promises) + 1) : i \notin DOMAIN s.promises

NewPromise(s, id, st) ==
  [s EXCEPT !.promises = @ @@ (id :> [state |-> st, reactions |-> <<>>])]

\* resolve(undefined) on promise p: a settled promise ignores it
Fulfil(s, p) ==
  IF s.promises[p].state = "fulfilled" THEN s
  ELSE [s EXCEPT !.promises[p] = [state |-> "fulfilled", reactions |-> <<>>],
                 !.microtasks = @ \o s.promises[p].reactions]

\* PerformPromiseThen(p, job)
Then(s, p, job) ==
  IF s.promises[p].state = "fulfilled"
  THEN [s EXCEPT !.microtasks = Append(@, job)]
  ELSE [s EXCEPT !.promises[p].reactions = Append(@, job)]

\* `await p` on a native promise inside the async function whose promise is own
Await(s, p, k, own) == Then(s, p, ContJob(k, own))

\* `return p` from the async function whose promise is own
ReturnPromise(s, own, p) ==
  [s EXCEPT !.microtasks = Append(@, ThenableJob(own, p))]

\* `await p` on a CancellablePromise: p is not a plain Promise, so the await
\* wraps it in a new promise w that follows p
AwaitCancellable(s, p, k, own) ==
  LET w == FreshId(s)
      s1 == NewPromise(s, w, "pending")
      s2 == [s1 EXCEPT !.promises[w].reactions = << ContJob(k, own) >>]
  IN  [s2 EXCEPT !.microtasks = Append(@, ThenableJob(w, p))]

\* a state together with a promise (or effect) created or returned in it
Ret(s, p) == [s |-> s, p |-> p]

\* entry of an async method: the promise the call returns is created
AsyncCall(s) == Ret(NewPromise(s, FreshId(s), "pending"), FreshId(s))

\* ------------------------------------------------------------------------
\* Cancellable text effects
\* ------------------------------------------------------------------------
FreshAnim(s) == CHOOSE i \in 1..(Cardinality(DOMAIN s.anims) + 1) : i \notin DOMAIN s.anims

\* number of scene changes rendered so far (the current playthrough)
Epoch(s) == Cardinality({ i \in 1..Len(s.log) : s.log[i].ev = "scene" })

\* the effect's promise is still pending: neither completed nor cancelled
InFlight(s, a) == s.promises[s.anims[a].p].state = "pending"

NewAnim(s, kind, text) ==
  LET a == FreshAnim(s)
      p == FreshId(s)
      s1 == NewPromise(s, p, "pending")
  IN  Ret([s1 EXCEPT !.anims = @ @@ (a :>
             [kind |-> kind, text |-> text, index |-> 0, cancelled |-> FALSE,
              timer |-> TRUE, p |-> p, scene |-> s.currentSceneId,
              idx |-> s.currentActionIndex, epoch |-> Epoch(s),
              cleanups |-> 0, completed |-> FALSE, held |-> FALSE,
              cancels |-> 0, onCompletes |-> 0, writes |-> 0])], a)

\* typewriter(element, text, {speed}) on the dialogue text element
typewriter(s, text) ==
  NewAnim([s EXCEPT !.dialogueText = <<>>], "typewriter", text)

\* fadeIn(element) on the dialogue text element
fadeIn(s) ==
  NewAnim([s EXCEPT !.opacity = "1"], "fade", <<>>)

\* fadeOut(element) on the dialogue text element
fadeOut(s) ==
  NewAnim([s EXCEPT !.opacity = "0"], "fadeOut", <<>>)

\* the onCancel callback of the effect; cleanups counts its invocations
\* and onCompletes the times options.onComplete?.() is reached
onCancel(s, a) ==
  IF s.anims[a].kind = "typewriter"
  THEN [s EXCEPT !.anims[a].cleanups = @ + 1, !.anims[a].timer = FALSE,
                 !.anims[a].onCompletes = @ + 1,
                 !.dialogueText = s.anims[a].text]
  ELSE \* fadeIn and fadeOut never store their timeout id, so nothing is
       \* cleared
       [s EXCEPT !.anims[a].cleanups = @ + 1,
                 !.anims[a].onCompletes = @ + 1,
                 !.opacity = IF s.anims[a].kind = "fadeOut" THEN "0" ELSE "1"]

\* promise.cancelled = value: the flag alone; writes counts the uses of
\* the setter on the effect
setCancelled(s, a, value) ==
  [s EXCEPT !.anims[a].cancelled = value, !.anims[a].writes = @ + 1]

\* cancel() without the test of the cancelled flag
cancel_unguarded(s, a) ==
  Let(onCancel([s EXCEPT !.anims[a].cancelled = TRUE], a),
      LAMBDA s2 : Fulfil(s2, s2.anims[a].p))

\* CancellablePromise.cancel()
cancel(s, a) ==
  IF s.anims[a].cancelled THEN s
  ELSE Let(onCancel([s EXCEPT !.anims[a].cancelled = TRUE], a),
           LAMBDA s2 : Fulfil(s2, s2.anims[a].p))

\* interval callback without the test of promise.cancelled
typewriterTick_ignoresCancel(s, a) ==
  LET an == s.anims[a] IN
  IF an.index < Len(an.text)
  THEN [s EXCEPT !.dialogueText = Append(@, an.text[an.index + 1]),
                 !.anims[a].index = @ + 1]
  ELSE Fulfil([s EXCEPT !.anims[a].timer = FALSE,
                         !.anims[a].onCompletes = @ + 1,
                         !.anims[a].completed = InFlight(s, a)], an.p)

\* interval callback that would resolve as it adds the last character
typewriterTick_resolvesEarly(s, a) ==
  LET an == s.anims[a] IN
  IF an.cancelled THEN s
  ELSE IF an.index + 1 < Len(an.text)
  THEN [s EXCEPT !.dialogueText = Append(@, an.text[an.index + 1]),
                 !.anims[a].index = @ + 1]
  ELSE Fulfil([s EXCEPT !.dialogueText = an.text,
                         !.anims[a].index = Len(an.text),
                         !.anims[a].timer = FALSE,
                         !.anims[a].onCompletes = @ + 1,
                         !.anims[a].completed = InFlight(s, a)], an.p)

\* one firing of the typewriter's interval callback
typewriterTick(s, a) ==
  LET an == s.anims[a] IN
  IF an.cancelled THEN s
  ELSE IF an.index < Len(an.text)
  THEN [s EXCEPT !.dialogueText = Append(@, an.text[an.index + 1]),
                 !.anims[a].index = @ + 1]
  ELSE Fulfil([s EXCEPT !.anims[a].timer = FALSE,
                         !.anims[a].onCompletes = @ + 1,
                         !.anims[a].completed = InFlight(s, a)], an.p)

\* the fade's timeout callback; resolve() settles the promise only if it
\* is still pending
fadeTimeout(s, a) ==
  Fulfil([s EXCEPT !.anims[a].timer = FALSE,
                   !.anims[a].onCompletes = @ + 1,
                   !.anims[a].completed = InFlight(s, a)], s.anims[a].p)

\* ------------------------------------------------------------------------
\* DOMRenderer
\* ------------------------------------------------------------------------
\* renderer options are the engine's default ({}): no assetsDirectory
resolveAssetPath(path) == path

\* character.image and character.name as they read during playback: those
\* of the Character object the author holds, where the script was authored
\* step by step
characterImage(s, c) ==
  IF s.characterObjects = << >> THEN Characters[c].image
  ELSE IF s.characterObjects[c].image = Undefined THEN ""
  ELSE s.characterObjects[c].image

characterName(s, c) ==
  IF s.characterObjects = << >> THEN Characters[c].name
  ELSE s.characterObjects[c].name

\* the element's fadeIn only animates the sprite's own opacity
showCharacter(s, c) ==
  LET els == IF c \in DOMAIN s.characterElements THEN s.characterElements
             ELSE s.characterElements @@
                  (c :> [display |-> "none",
                         img |-> IF characterImage(s, c) # ""
                                 THEN resolveAssetPath(characterImage(s, c)) ELSE "",
                         epoch |-> Epoch(s)])
  IN  [s EXCEPT !.characterElements = [els EXCEPT ![c].display = "block"]]

hideCharacter(s, c) ==
  IF c \in DOMAIN s.characterElements
  THEN [s EXCEPT !.characterElements[c].display = "none"]
  ELSE s

setCharacterImage(s, c, image) ==
  IF c \in DOMAIN s.characterElements
  THEN [s EXCEPT !.characterElements[c].img = resolveAssetPath(image)]
  ELSE s

\* the effect r.p started in r.s becomes currentAnimation and is awaited
AwaitAnimation(r, own) ==
  Let([r.s EXCEPT !.currentAnimation = r.p],
      LAMBDA s2 : Ret(AwaitCancellable(s2, s2.anims[r.p].p, "displayDialogue", own), own))

displayDialogue(s, act) ==
  Let(AsyncCall(s), LAMBDA c :
    Let([c.s EXCEPT !.speakerName = characterName(c.s, act.character)], LAMBDA s1 :
      IF act.effect = "typewriter"
      THEN Let(typewriter([s1 EXCEPT !.dialogueText = <<>>], act.text),
               LAMBDA r : AwaitAnimation(r, c.p))
      ELSE IF act.effect = "fade"
      THEN Let(fadeIn([s1 EXCEPT !.dialogueText = act.text, !.opacity = "0"]),
               LAMBDA r : AwaitAnimation(r, c.p))
      ELSE Ret(Fulfil([s1 EXCEPT !.dialogueText = act.text, !.opacity = "1"], c.p),
               c.p)))

RECURSIVE processActions(_)
RECURSIVE nextAction(_)
RECURSIVE renderCurrentScene(_)

\* `return` without a value from the async method whose call is c
Return(c) == Ret(Fulfil(c.s, c.p), c.p)

\* `return r.p`, the promise of the call that ended in r.s
ReturnCall(r, own) == Ret(ReturnPromise(r.s, own, r.p), own)

\* `await r.p`, the promise of the call that ended in r.s; k resumes after it
AwaitCall(r, k, own) == Ret(Await(r.s, r.p, k, own), own)

\* processAction without the nextAction() call of the show / hide / setImage
\* branches
processAction_noAutoAdvance(s, act) ==
  Let(AsyncCall(s), LAMBDA c :
    CASE act.type = "show" ->
           IF act.character # Null
           THEN Return(Ret(showCharacter(c.s, act.character), c.p))
           ELSE Return(c)
      [] act.type = "hide" ->
           IF act.character # Null
           THEN Return(Ret(hideCharacter(c.s, act.character), c.p))
           ELSE Return(c)
      [] act.type = "setImage" ->
           IF act.character # Null /\ act.image # ""
           THEN Return(Ret(setCharacterImage(c.s, act.character, act.image), c.p))
           ELSE Return(c)
      [] act.type = "dialogue" ->
           IF act.character # Null /\ act.text # <<>>
           THEN Let(displayDialogue(c.s, act), LAMBDA r : ReturnCall(r, c.p))
           ELSE Return(c))

\* processAction calling nextAction() also for an action that lacks a field
processAction_advancesMalformed(s, act) ==
  Let(AsyncCall(s), LAMBDA c :
    CASE act.type = "show" ->
           Let(nextAction(IF act.character # Null
                          THEN showCharacter(c.s, act.character) ELSE c.s),
               LAMBDA r : ReturnCall(r, c.p))
      [] act.type = "hide" ->
           Let(nextAction(IF act.character # Null
                          THEN hideCharacter(c.s, act.character) ELSE c.s),
               LAMBDA r : ReturnCall(r, c.p))
      [] act.type = "setImage" ->
           Let(nextAction(IF act.character # Null /\ act.image # ""
                          THEN setCharacterImage(c.s, act.character, act.image)
                          ELSE c.s),
               LAMBDA r : ReturnCall(r, c.p))
      [] act.type = "dialogue" ->
           IF act.character # Null /\ act.text # <<>>
           THEN Let(displayDialogue(c.s, act), LAMBDA r : ReturnCall(r, c.p))
           ELSE Let(nextAction(c.s), LAMBDA r : ReturnCall(r, c.p)))

processAction(s, act) ==
  Let(AsyncCall(s), LAMBDA c :
    CASE act.type = "show" ->
           IF act.character # Null
           THEN Let(nextAction(showCharacter(c.s, act.character)),
                    LAMBDA r : ReturnCall(r, c.p))
           ELSE Return(c)
      [] act.type = "hide" ->
           IF act.character # Null
           THEN Let(nextAction(hideCharacter(c.s, act.character)),
                    LAMBDA r : ReturnCall(r, c.p))
           ELSE Return(c)
      [] act.type = "setImage" ->
           IF act.character # Null /\ act.image # ""
           THEN Let(nextAction(setCharacterImage(c.s, act.character, act.image)),
                    LAMBDA r : ReturnCall(r, c.p))
           ELSE Return(c)
      [] act.type = "dialogue" ->
           IF act.character # Null /\ act.text # <<>>
           THEN Let(displayDialogue(c.s, act), LAMBDA r : ReturnCall(r, c.p))
           ELSE Return(c))

processActions(s) ==
  Let(AsyncCall(s), LAMBDA c :
    LET scene == currentScene(s) IN
    IF scene = Null THEN Return(c)
    ELSE IF s.currentActionIndex >= Len(actionsOf(s, scene)) THEN Return(c)
    ELSE Let(processAction(
               [c.s EXCEPT
                  !.isProcessing = TRUE,
                  !.log = Append(@,
                    [ev |-> "action", scene |-> scene,
                     idx |-> s.currentActionIndex,
                     overlap |-> \E a \in DOMAIN s.anims :
                                   /\ InFlight(s, a)
                                   /\ s.anims[a].epoch = Epoch(s)])],
               actionsOf(s, scene)[s.currentActionIndex + 1]),
             LAMBDA r : AwaitCall(r, "processActions", c.p)))

\* the renderer's sceneChange listener, run by emitEvent
sceneChangeListener(s) ==
  Let(AsyncCall(s), LAMBDA c :
    Let(renderCurrentScene(c.s), LAMBDA r : Await(r.s, r.p, "sceneChange", c.p)))

\* the record passed to emitEvent; cur and hist are history, the engine
\* state at the moment emitEvent is called
SceneChangeEvent(s, id) ==
  [type |-> "sceneChange", sceneId |-> id, key |-> "", value |-> Null,
   cur |-> s.currentSceneId, hist |-> s.sceneHistory, seen |-> Null]

\* seen is history: the value getVariable(key) returns when emitEvent is
\* called
VariableChangeEvent(s, k, v) ==
  [type |-> "variableChange", sceneId |-> Null, key |-> k, value |-> v,
   cur |-> s.currentSceneId, hist |-> s.sceneHistory,
   seen |-> getVariable(s, k)]

\* Set.add and Set.delete on a set kept in insertion order
SetAdd(set, x) ==
  IF \E i \in 1..Len(set) : set[i] = x THEN set ELSE Append(set, x)
SetDelete(set, x) == SelectSeq(set, LAMBDA y : y # x)

\* a listener list that would take the same listener twice
on_pushes(s, type, l) ==
  [s EXCEPT !.listeners =
     IF type \in DOMAIN @ THEN [@ EXCEPT ![type] = Append(@, l)]
     ELSE (type :> << l >>) @@ @]

\* VNEngine.on
on(s, type, l) ==
  [s EXCEPT !.listeners =
     IF type \in DOMAIN @ THEN [@ EXCEPT ![type] = SetAdd(@, l)]
     ELSE (type :> << l >>) @@ @]

\* off that would forget every listener of the type
off_dropsAll(s, type, l) ==
  IF type \in DOMAIN s.listeners
  THEN [s EXCEPT !.listeners[type] = << >>]
  ELSE s

\* VNEngine.off
off(s, type, l) ==
  IF type \in DOMAIN s.listeners
  THEN [s EXCEPT !.listeners[type] = SetDelete(@, l)]
  ELSE s

\* an exception thrown by listener l leaves the call that is running
Raise(s, l) ==
  [s EXCEPT !.thrown = TRUE, !.outcome.kind = "threw", !.outcome.by = l]
\* an exception thrown in this task has not been caught
Propagating(s) == s.thrown

\* the scene the page's listener "redirect" sends every playthrough to
RedirectTo == 1

RECURSIVE jumpTo(_, _)

\* listener(event): the renderer's listener renders; a listener of the page
\* is recorded with the event it was given and with the current scene id
\* and the history it reads from the engine as it is called, and throws if
\* its body does; the listener "redirect" calls engine.jumpTo(RedirectTo)
\* when it is told of a change to another scene
Invoke(s, l, ev) ==
  IF l = "renderer" THEN sceneChangeListener(s)
  ELSE Let([s EXCEPT !.heard = Append(@, [listener |-> l, event |-> ev,
                                          cur |-> s.currentSceneId,
                                          hist |-> s.sceneHistory])],
           LAMBDA s1 :
             IF l \in s1.throwers THEN Raise(s1, l)
             ELSE IF l = "redirect" /\ ev.type = "sceneChange"
                     /\ ev.sceneId # RedirectTo
             THEN jumpTo(s1, RedirectTo)
             ELSE s1)

RECURSIVE forEach(_, _, _)
\* a dispatch that would swallow what a listener throws and go on
forEach_catches(s, ls, ev) ==
  IF ls = << >> THEN s
  ELSE forEach([Invoke(s, Head(ls), ev) EXCEPT !.outcome = s.outcome,
                                               !.thrown = s.thrown],
               Tail(ls), ev)

\* listeners.forEach(listener => listener(event)): an exception ends it
forEach(s, ls, ev) ==
  IF ls = << >> \/ Propagating(s) THEN s
  ELSE forEach(Invoke(s, Head(ls), ev), Tail(ls), ev)

\* this.listeners.get(type), empty when the map has no entry
listenersOf(s, type) ==
  IF type \in DOMAIN s.listeners THEN s.listeners[type] ELSE << >>

\* a dispatch that would call the listeners of both event types
emitEvent_toAll(s, ev) ==
  Let([s EXCEPT !.events = Append(@, ev)], LAMBDA s1 :
    forEach(s1, listenersOf(s1, "sceneChange")
                  \o listenersOf(s1, "variableChange"), ev))

\* VNEngine.emitEvent: the listeners of the event's type run at once, in
\* the order of their registration
emitEvent(s, ev) ==
  Let([s EXCEPT !.events = Append(@, ev)], LAMBDA s1 :
    forEach(s1, listenersOf(s1, ev.type), ev))

\* a call that ends by throwing the scene-not-found error naming id
Throw(s, id) ==
  [s EXCEPT !.thrown = TRUE, !.outcome.kind = "threw", !.outcome.id = id]

\* jumpTo that moves to a scene the script does not have
jumpTo_unchecked(s, id) ==
  Let(setCurrentSceneId(s, id), LAMBDA s1 : emitEvent(s1, SceneChangeEvent(s1, id)))

\* VNEngine.jumpTo: state first, then the event
jumpTo(s, id) ==
  IF getScene(s, id) = Null THEN Throw(s, id)
  ELSE Let(setCurrentSceneId(s, id),
           LAMBDA s1 : emitEvent(s1, SceneChangeEvent(s1, id)))

\* next() that never finds a following scene
next_noNextScene(s) == [s |-> s, ok |-> FALSE]

\* next() that passes over the scene that follows
next_skipsOne(s) ==
  IF s.currentSceneId = Null THEN [s |-> s, ok |-> FALSE]
  ELSE LET currentIndex == getSceneIndex(s, s.currentSceneId) IN
       IF currentIndex = -1 THEN [s |-> s, ok |-> FALSE]
       ELSE LET nextScene == getSceneByIndex(s, currentIndex + 2) IN
            IF nextScene = Null THEN [s |-> s, ok |-> FALSE]
            ELSE [s |-> jumpTo(s, nextScene), ok |-> TRUE]

\* setVariable that dispatches the event before storing the value
setVariable_emitsFirst(s, k, v) ==
  storeVariable(emitEvent(s, VariableChangeEvent(s, k, v)), k, v)

\* VNEngine.setVariable: store, then the event
setVariable(s, k, v) ==
  Let(storeVariable(s, k, v),
      LAMBDA s1 : emitEvent(s1, VariableChangeEvent(s1, k, v)))

\* VNEngine.next: the new state and the returned boolean
next(s) ==
  IF s.currentSceneId = Null THEN [s |-> s, ok |-> FALSE]
  ELSE LET currentIndex == getSceneIndex(s, s.currentSceneId) IN
       IF currentIndex = -1 THEN [s |-> s, ok |-> FALSE]
       ELSE LET nextScene == getSceneByIndex(s, currentIndex + 1) IN
            IF nextScene = Null THEN [s |-> s, ok |-> FALSE]
            ELSE [s |-> jumpTo(s, nextScene), ok |-> TRUE]

\* nextAction without the reset of the dialogue display at the end of the
\* last scene
nextAction_keepsText(s) ==
  Let(AsyncCall(s), LAMBDA c :
    LET scene == currentScene(s) IN
    IF scene = Null THEN Return(c)
    ELSE Let([c.s EXCEPT !.currentActionIndex = @ + 1], LAMBDA s1 :
           IF s1.currentActionIndex >= Len(actionsOf(s, scene))
           THEN Let(next(s1), LAMBDA n : Return(Ret(n.s, c.p)))
           ELSE Let(processActions(s1), LAMBDA r : AwaitCall(r, "nextAction", c.p))))

nextAction(s) ==
  Let(AsyncCall(s), LAMBDA c :
    LET scene == currentScene(s) IN
    IF scene = Null THEN Return(c)
    ELSE Let([c.s EXCEPT !.currentActionIndex = @ + 1], LAMBDA s1 :
           IF s1.currentActionIndex >= Len(actionsOf(s, scene))
           THEN Let(next(s1), LAMBDA n :
                  IF n.ok THEN Return(Ret(n.s, c.p))
                  ELSE Return(Ret([n.s EXCEPT !.dialogueText = <<>>,
                                              !.speakerName = ""], c.p)))
           ELSE Let(processActions(s1), LAMBDA r : AwaitCall(r, "nextAction", c.p))))

\* renderCurrentScene without clearing the character layer
renderCurrentScene_keepsElements(s) ==
  Let(AsyncCall(s), LAMBDA c :
    LET scene == currentScene(s) IN
    IF scene = Null THEN Return(c)
    ELSE LET bg == s.script[scene].background IN
         Let(processActions(
               [c.s EXCEPT
                  !.currentActionIndex = 0,
                  !.background = IF bg # "" THEN resolveAssetPath(bg) ELSE @,
                  !.log = Append(@, [ev |-> "scene", scene |-> scene,
                                     idx |-> 0, overlap |-> FALSE])]),
             LAMBDA r : AwaitCall(r, "renderCurrentScene", c.p)))

renderCurrentScene(s) ==
  Let(AsyncCall(s), LAMBDA c :
    LET scene == currentScene(s) IN
    IF scene = Null THEN Return(c)
    ELSE LET bg == s.script[scene].background IN
         Let(processActions(
               [c.s EXCEPT
                  !.currentActionIndex = 0,
                  !.background = IF bg # "" THEN resolveAssetPath(bg) ELSE @,
                  !.characterElements = << >>,
                  !.log = Append(@, [ev |-> "scene", scene |-> scene,
                                     idx |-> 0, overlap |-> FALSE])]),
             LAMBDA r : AwaitCall(r, "renderCurrentScene", c.p)))

\* click listener whose cancel branch goes on to advance
click_cancelAdvances(s) ==
  Let(IF s.currentAnimation # Null
      THEN [cancel(s, s.currentAnimation) EXCEPT
              !.currentAnimation = Null, !.isProcessing = FALSE]
      ELSE s,
      LAMBDA s1 :
        IF ~s1.isProcessing
        THEN Let(AsyncCall(s1), LAMBDA c :
               Let(nextAction(c.s), LAMBDA r : Await(r.s, r.p, "click", c.p)))
        ELSE s1)

\* click listener that does not test isProcessing
click_ignoresProcessing(s) ==
  IF s.currentAnimation # Null
  THEN [cancel(s, s.currentAnimation) EXCEPT
          !.currentAnimation = Null, !.isProcessing = FALSE]
  ELSE Let(AsyncCall(s), LAMBDA c :
         Let(nextAction(c.s), LAMBDA r : Await(r.s, r.p, "click", c.p)))

\* the dialogue box's click listener
click(s) ==
  IF s.currentAnimation # Null
  THEN [cancel(s, s.currentAnimation) EXCEPT
          !.currentAnimation = Null, !.isProcessing = FALSE]
  ELSE IF ~s.isProcessing
  THEN Let(AsyncCall(s), LAMBDA c :
         Let(nextAction(c.s), LAMBDA r : Await(r.s, r.p, "click", c.p)))
  ELSE s

\* one job of the promise job queue
runJob(s, job) ==
  CASE job.t = "thenable" -> Then(s, job.src, ResolveJob(job.p))
    [] job.t = "resolve" -> Fulfil(s, job.p)
    [] job.t = "cont" ->
         Fulfil(CASE job.k = "displayDialogue" ->
                       [s EXCEPT !.currentAnimation = Null]
                  [] job.k = "processActions" ->
                       [s EXCEPT !.isProcessing = FALSE]
                  [] OTHER -> s,
                job.p)

\* ------------------------------------------------------------------------
\* Unreachable objects are dropped from the state
\* ------------------------------------------------------------------------
LiveAnims(s) ==
  { a \in DOMAIN s.anims :
      \/ InFlight(s, a) \/ s.anims[a].timer \/ a = s.currentAnimation
      \/ s.anims[a].held }

\* x was started before y: an effect is identified by the playthrough and
\* the action that started it
StartedBefore(s, x, y) ==
  \/ s.anims[x].epoch < s.anims[y].epoch
  \/ /\ s.anims[x].epoch = s.anims[y].epoch
     /\ s.anims[x].idx < s.anims[y].idx

\* live effects, oldest first
AnimOrder(s, as) ==
  [ k \in 1..Cardinality(as) |->
      CHOOSE x \in as : Cardinality({ y \in as : StartedBefore(s, y, x) }) = k - 1 ]

\* the ids of q other than Null, each once, in the order of first occurrence
FirstOccurrences(q) ==
  Let(SelectSeq([i \in 1..Len(q) |-> i],
                LAMBDA i : q[i] # Null /\ \A j \in 1..(i - 1) : q[j] # q[i]),
      LAMBDA firsts : [k \in 1..Len(firsts) |-> q[firsts[k]]])

\* append the ids of q that are not yet in order
AddIds(order, q) == Let(order \o q, LAMBDA all : FirstOccurrences(all))

JobIdSeq(jobs) ==
  [ i \in 1..(2 * Len(jobs)) |->
      IF i % 2 = 1 THEN jobs[(i + 1) \div 2].p ELSE jobs[i \div 2].src ]

\* promises reachable from the job queue and the live effects, in the order
\* in which they are first met
RECURSIVE Reach(_, _, _)
Reach(s, order, i) ==
  IF i > Len(order) THEN order
  ELSE Let(AddIds(order, JobIdSeq(s.promises[order[i]].reactions)),
           LAMBDA longer : Reach(s, longer, i + 1))

PromiseOrder(s, ao) ==
  Let(AddIds(<< >>, JobIdSeq(s.microtasks) \o [i \in 1..Len(ao) |-> s.anims[ao[i]].p]),
      LAMBDA roots : Reach(s, roots, 1))

IndexOf(order, x) ==
  IF x = Null THEN Null ELSE CHOOSE i \in 1..Len(order) : order[i] = x

\* s with its effects ao and promises po renamed to their ranks
Rename(s, ao, po) ==
  LET rejob(j) == [j EXCEPT !.p = IndexOf(po, @), !.src = IndexOf(po, @)]
      rejobs(q) == [i \in 1..Len(q) |-> rejob(q[i])]
  IN  [s EXCEPT
         !.anims = [i \in 1..Len(ao) |->
                      [s.anims[ao[i]] EXCEPT !.p = IndexOf(po, @)]],
         !.currentAnimation = IndexOf(ao, @),
         !.promises = [i \in 1..Len(po) |->
                         [s.promises[po[i]] EXCEPT !.reactions = rejobs(@)]],
         !.microtasks = rejobs(@)]

\* Object references are renamed to their rank among the live objects, so
\* that states differing only in the naming of objects coincide
Collect(t) ==
  Let(t, LAMBDA s :
    Let(AnimOrder(s, LiveAnims(s)), LAMBDA ao :
      Let(PromiseOrder(s, ao), LAMBDA po : Rename(s, ao, po))))

\* ------------------------------------------------------------------------
\* Initial state: new VNEngine({script, startScene}) has run, which builds
\* the renderer and emits the first sceneChange
\* ------------------------------------------------------------------------
\* the state before the engine exists: nothing built, no call made
Blank(sc) ==
  [ script |-> sc, currentSceneId |-> Null, sceneHistory |-> << >>,
    currentActionIndex |-> 0, isProcessing |-> FALSE,
    currentAnimation |-> Null, characterElements |-> << >>,
    background |-> "", speakerName |-> "", dialogueText |-> << >>,
    opacity |-> "", anims |-> << >>, promises |-> << >>,
    microtasks |-> << >>, variables |-> << >>, listeners |-> << >>,
    throwers |-> { }, heard |-> << >>, sceneObjects |-> << >>,
    characterObjects |-> << >>, sceneList |-> << >>, sceneMap |-> << >>,
    imagesThen |-> << >>, events |-> << >>,
    outcome |-> Called("", Null), calls |-> 0, assigns |-> << >>,
    log |-> << >>, thrown |-> FALSE ]

\* a constructor that would build the engine without looking the start
\* scene up
Constructed_unchecked(sc, start) ==
  Let(on([Blank(sc) EXCEPT !.currentSceneId = start,
                           !.outcome = Called("construct", start)],
         "sceneChange", "renderer"),
      LAMBDA s : Collect(emitEvent(s, SceneChangeEvent(s, start))))

\* the VNEngine constructor: new StateManager(startScene), new DOMRenderer,
\* then the first sceneChange
ConstructedOn(b, start) ==
  IF getScene(b, start) = Null
  THEN Throw([b EXCEPT !.outcome = Called("construct", start)], start)
  ELSE Let(on([b EXCEPT !.currentSceneId = start,
                        !.outcome = Called("construct", start)],
              "sceneChange", "renderer"),
           LAMBDA s : Collect(emitEvent(s, SceneChangeEvent(s, start))))

\* new VNEngine({script: sc, startScene: start}) where nothing exists yet
Constructed(sc, start) == ConstructedOn(Blank(sc), start)

\* the variables take the values of state t, after a step of kind step
Commit(t, step) ==
  \E s \in { t } :
    /\ lastStep' = step
    /\ script' = s.script
    /\ currentSceneId' = s.currentSceneId
    /\ sceneHistory' = s.sceneHistory
    /\ currentActionIndex' = s.currentActionIndex
    /\ isProcessing' = s.isProcessing
    /\ currentAnimation' = s.currentAnimation
    /\ characterElements' = s.characterElements
    /\ background' = s.background
    /\ speakerName' = s.speakerName
    /\ dialogueText' = s.dialogueText
    /\ opacity' = s.opacity
    /\ anims' = s.anims
    /\ promises' = s.promises
    /\ microtasks' = s.microtasks
    /\ variables' = s.variables
    /\ listeners' = s.listeners
    /\ throwers' = s.throwers
    /\ heard' = s.heard
    /\ sceneObjects' = s.sceneObjects
    /\ characterObjects' = s.characterObjects
    /\ sceneList' = s.sceneList
    /\ sceneMap' = s.sceneMap
    /\ imagesThen' = s.imagesThen
    /\ events' = s.events
    /\ outcome' = s.outcome
    /\ calls' = s.calls
    /\ assigns' = s.assigns
    /\ log' = s.log

\* the variables start with the values of state t
Begin(t, step) ==
  \E s \in { t } :
    /\ lastStep = step
    /\ script = s.script
    /\ currentSceneId = s.currentSceneId
    /\ sceneHistory = s.sceneHistory
    /\ currentActionIndex = s.currentActionIndex
    /\ isProcessing = s.isProcessing
    /\ currentAnimation = s.currentAnimation
    /\ characterElements = s.characterElements
    /\ background = s.background
    /\ speakerName = s.speakerName
    /\ dialogueText = s.dialogueText
    /\ opacity = s.opacity
    /\ anims = s.anims
    /\ promises = s.promises
    /\ microtasks = s.microtasks
    /\ variables = s.variables
    /\ listeners = s.listeners
    /\ throwers = s.throwers
    /\ heard = s.heard
    /\ sceneObjects = s.sceneObjects
    /\ characterObjects = s.characterObjects
    /\ sceneList = s.sceneList
    /\ sceneMap = s.sceneMap
    /\ imagesThen = s.imagesThen
    /\ events = s.events
    /\ outcome = s.outcome
    /\ calls = s.calls
    /\ assigns = s.assigns
    /\ log = s.log

Init ==
  \E sc \in Scripts : \E start \in 1..Len(sc) :
    Begin(Constructed(sc, start), "construct")

\* ------------------------------------------------------------------------
\* Steps
\* ------------------------------------------------------------------------
\* length of the current scene's action log (0 without a current scene)
LogLen ==
  IF currentScene(St) = Null THEN 0 ELSE Len(actionsOf(St, currentScene(St)))

\* an advance signal: a click on the dialogue box
Click ==
  /\ currentActionIndex < LogLen + MaxOverrun
  /\ \E s \in { St } :
       Commit(Collect(click(s)),
              IF currentAnimation # Null THEN "cancel"
              ELSE IF ~isProcessing THEN "advance" ELSE "drop")

\* the event loop runs the oldest promise job
Microtask ==
  /\ microtasks # << >>
  /\ \E s \in { [St EXCEPT !.microtasks = Tail(@)] } :
       Commit(Collect(runJob(s, Head(microtasks))), "job")

\* timers fire between tasks, when no promise job is left
TypewriterTick ==
  /\ microtasks = << >>
  /\ \E a \in DOMAIN anims :
       /\ anims[a].kind = "typewriter"
       /\ anims[a].timer
       /\ \E s \in { St } : Commit(Collect(typewriterTick(s, a)), "tick")

FadeTimeout ==
  /\ microtasks = << >>
  /\ \E a \in DOMAIN anims :
       /\ anims[a].kind \in { "fade", "fadeOut" }
       /\ anims[a].timer
       /\ \E s \in { St } : Commit(Collect(fadeTimeout(s, a)), "timeout")

Next == Click \/ Microtask \/ TypewriterTick \/ FadeTimeout

Spec == Init /\ [][Next]_vars

\* ------------------------------------------------------------------------
\* The effects on their own: the page starts typewriter(), fadeIn() and
\* fadeOut() on one element, keeps the returned promises and calls cancel()
\* on them; in FlaggedEffectSpec it assigns their cancelled flag as well
\* ------------------------------------------------------------------------
\* texts the page types
Texts == { << "h", "i" >>, << "x" >> }

\* the page keeps the promise of the effect r.p it has just started; its
\* effects are told apart by the order in which they were started
Keep(r) ==
  [r.s EXCEPT !.anims[r.p].held = TRUE,
              !.anims[r.p].idx = Cardinality(DOMAIN r.s.anims)]

InitEffects == Begin(Blank(<< >>), "page")

StartTypewriter ==
  /\ Cardinality(DOMAIN anims) < MaxEffects
  /\ \E text \in Texts : \E s \in { St } :
       Commit(Collect(Keep(typewriter(s, text))), "start")

StartFade ==
  /\ Cardinality(DOMAIN anims) < MaxEffects
  /\ \E s \in { St } : Commit(Collect(Keep(fadeIn(s))), "start")

StartFadeOut ==
  /\ Cardinality(DOMAIN anims) < MaxEffects
  /\ \E s \in { St } : Commit(Collect(Keep(fadeOut(s))), "start")

\* the assignments of a cancelled flag the page has made
Writes ==
  LET RECURSIVE Sum(_)
      Sum(as) == IF as = { } THEN 0
                 ELSE LET a == CHOOSE x \in as : TRUE
                      IN  anims[a].writes + Sum(as \ { a })
  IN  Sum(DOMAIN anims)

\* promise.cancelled = value on an effect the page keeps
SetCancelledCall ==
  /\ Writes < MaxWrites
  /\ \E a \in DOMAIN anims : \E value \in BOOLEAN :
       /\ anims[a].held
       /\ \E s \in { St } :
            Commit(Collect(setCancelled(s, a, value)), "setCancelled")

\* promise.cancel() on an effect the page keeps
CancelCall ==
  /\ calls < MaxCalls
  /\ \E a \in DOMAIN anims :
       /\ anims[a].held
       /\ \E s \in { [St EXCEPT !.calls = @ + 1, !.anims[a].cancels = @ + 1] } :
            Commit(Collect(cancel(s, a)), "cancelCall")

\* ------------------------------------------------------------------------
\* The engine driven by the page: new VNEngine with any start id, then calls
\* of jumpTo, next, setVariable and of the state manager's currentSceneId
\* setter, setVariable and clearHistory, made one after the other within
\* one task (no promise job, click or timer comes between two calls)
\* ------------------------------------------------------------------------
\* variable names and values the page uses
Keys == { "a", "b" }
Values == { 1, 2 }

\* ids the page passes: the scenes of the script and one it does not have
SceneIds == 1..(Len(script) + 1)

\* construction threw: there is no engine to call
NoEngine == outcome.op = "construct" /\ outcome.kind = "threw"

\* scripts of scenes that are empty, end on a dialogue or have only
\* non-blocking actions
EngineScripts ==
  { sc \in SeqsUpTo({ SceneList[1], SceneList[2], SceneList[8] },
                    MaxEngineScenes) :
      Len(sc) >= 1 /\ Size(sc) <= MaxSize }

InitAnyStart ==
  \E sc \in EngineScripts : \E start \in 1..(Len(sc) + 1) :
    Begin(Constructed(sc, start), "construct")

\* the state in which the page's call op(arg) starts
Calling(op, arg) == [St EXCEPT !.calls = @ + 1, !.outcome = Called(op, arg)]

\* engine.jumpTo(id)
JumpToCall ==
  /\ ~NoEngine /\ calls < MaxCalls
  /\ \E id \in SceneIds : \E s \in { Calling("jumpTo", id) } :
       Commit(Collect(jumpTo(s, id)), "jumpTo")

\* engine.next()
NextCall ==
  /\ ~NoEngine /\ calls < MaxCalls
  /\ \E n \in { next(Calling("next", Null)) } :
       Commit(Collect([n.s EXCEPT !.outcome.ret =
                         IF Propagating(n.s) THEN ""
                         ELSE IF n.ok THEN "true" ELSE "false"]),
              "next")

\* engine.stateManager.currentSceneId = id, null included
SetSceneIdCall ==
  /\ ~NoEngine /\ calls < MaxCalls
  /\ \E id \in { Null } \cup SceneIds : \E s \in { Calling("setSceneId", id) } :
       Commit(Collect(setCurrentSceneId(s, id)), "setSceneId")

\* engine.stateManager.clearHistory()
ClearHistoryCall ==
  /\ ~NoEngine /\ calls < MaxCalls
  /\ \E s \in { Calling("clearHistory", Null) } :
       Commit(Collect(clearHistory(s)), "clearHistory")

\* engine.setVariable(key, value), with a listener of the page attached
\* that reads the variable back
SetVariableCall ==
  /\ ~NoEngine /\ calls < MaxCalls
  /\ \E k \in Keys : \E v \in Values : \E s \in { Calling("setVariable", k) } :
       Commit(Collect(setVariable(s, k, v)), "setVariable")

\* engine.stateManager.setVariable(key, value): the store alone, no event
StoreVariableCall ==
  /\ ~NoEngine /\ calls < MaxCalls
  /\ \E k \in Keys : \E v \in Values : \E s \in { Calling("storeVariable", k) } :
       Commit(Collect(storeVariable(s, k, v)), "storeVariable")

NextEngine ==
  \/ JumpToCall \/ NextCall \/ SetSceneIdCall \/ ClearHistoryCall
  \/ SetVariableCall \/ StoreVariableCall

EngineSpec == InitAnyStart /\ [][NextEngine]_vars

\* ------------------------------------------------------------------------
\* The engine and its listeners, where there is no document (the engine
\* builds no renderer): the page registers and removes listeners and calls
\* the methods that emit.  No specification registers a listener that
\* throws on an engine that has a renderer.
\* ------------------------------------------------------------------------
\* the listeners the page has, and the event types
Listeners == { "listener1", "listener2" }
EventTypes == { "sceneChange", "variableChange" }
\* the listener whose body may be one that throws
MayThrow == { "listener2" }

\* scripts of scenes without actions: nothing plays them here
PlainScripts ==
  { sc \in Scripts : \A i \in 1..Len(sc) : sc[i] = SceneList[1] }

\* new VNEngine(...) without a document; th are the listeners that throw
ConstructedHeadless(sc, start, th) ==
  Let([Blank(sc) EXCEPT !.currentSceneId = start, !.throwers = th,
                        !.outcome = Called("construct", start)],
      LAMBDA s : emitEvent(s, SceneChangeEvent(s, start)))

InitHeadless ==
  \E sc \in PlainScripts : \E start \in 1..Len(sc) :
    \E th \in SUBSET MayThrow :
      Begin(ConstructedHeadless(sc, start, th), "construct")

\* a call of on or off: it is not counted among the calls that emit
Registering(op, type, l) == [St EXCEPT !.outcome = Called(op, << type, l >>)]

OnCall ==
  \E type \in EventTypes : \E l \in Listeners :
    \E s \in { Registering("on", type, l) } :
      Commit(on(s, type, l), "on")

OffCall ==
  \E type \in EventTypes : \E l \in Listeners :
    \E s \in { Registering("off", type, l) } :
      Commit(off(s, type, l), "off")

NextListeners ==
  OnCall \/ OffCall \/ JumpToCall \/ NextCall \/ SetVariableCall

ListenerSpec == InitHeadless /\ [][NextListeners]_vars

\* ------------------------------------------------------------------------
\* Writing a script: the author has Scene objects and adds them to a new
\* Script.  Here a scene is a reference to its object and its id is what
\* the author gave it, so that two objects can have one id.
\* ------------------------------------------------------------------------
\* the ids the author gives to scenes
SceneNames == { "scene1", "scene2", "scene3" }

\* new Scene(id)
NewScene(id) == [id |-> id, actions |-> << >>, characters |-> { }]

\* addScene that would take a scene whatever its id
addScene_unchecked(s, o) ==
  [s EXCEPT !.sceneList = Append(@, o),
            !.sceneMap = (s.sceneObjects[o].id :> o) @@ @]

\* Script.addScene
addScene(s, o) ==
  IF s.sceneObjects[o].id \in DOMAIN s.sceneMap
  THEN Throw(s, s.sceneObjects[o].id)
  ELSE [s EXCEPT !.sceneList = Append(@, o),
                 !.sceneMap = (s.sceneObjects[o].id :> o) @@ @]

\* Script.getScene: sceneMap.get(id)
Script_getScene(s, id) ==
  IF id \in DOMAIN s.sceneMap THEN s.sceneMap[id] ELSE Null

\* a lookup that would count positions from one
Script_getSceneByIndex_fromOne(s, index) ==
  IF index \in 1..Len(s.sceneList) THEN s.sceneList[index] ELSE Null

\* Script.getSceneByIndex: _scenes[index]
Script_getSceneByIndex(s, index) ==
  IF index + 1 \in 1..Len(s.sceneList) THEN s.sceneList[index + 1] ELSE Null

\* Script.getSceneIndex: _scenes.findIndex(scene => scene.id === id)
Script_getSceneIndex(s, id) ==
  LET found == { i \in 1..Len(s.sceneList) :
                   s.sceneObjects[s.sceneList[i]].id = id }
  IN  IF found = { } THEN -1
      ELSE (CHOOSE i \in found : \A j \in found : i <= j) - 1

\* the author has made one scene more than the longest script has, under
\* any ids, and an empty Script
InitScript ==
  \E ids \in [1..(MaxScenes + 1) -> SceneNames] :
    Begin([Blank(<< >>) EXCEPT
             !.sceneObjects = [o \in 1..(MaxScenes + 1) |-> NewScene(ids[o])]],
          "page")

AddSceneCall ==
  \E o \in DOMAIN sceneObjects :
    \E s \in { [St EXCEPT !.outcome = Called("addScene", o)] } :
      Commit(addScene(s, o), "addScene")

NextScript == AddSceneCall

ScriptSpec == InitScript /\ [][NextScript]_vars

\* ------------------------------------------------------------------------
\* Writing scenes: the author has two scenes and two characters and calls
\* the methods of Scene and Character.  A character is a reference to its
\* object, as a scene is.
\* ------------------------------------------------------------------------
\* new Character(name, image)
NewCharacter(name, image) ==
  [name |-> name, image |-> image, position |-> Undefined,
   size |-> Undefined, currentScene |-> Null]

\* a SceneAction as the author queues it
Queued(type, c, text, effect, position, size, image) ==
  [type |-> type, character |-> c, text |-> text, effect |-> effect,
   position |-> position, size |-> size, image |-> image]

\* a ?? b
Coalesce(a, b) == IF a # Undefined THEN a ELSE b

\* the image the character of action act has in state s
ImageNow(s, act) ==
  IF act.character = Null THEN Undefined
  ELSE s.characterObjects[act.character].image

\* the characters of the texts the author uses
Letters(text) ==
  CASE text = "Hello" -> << "H", "e", "l", "l", "o" >>
    [] text = "Test" -> << "T", "e", "s", "t" >>
    [] OTHER -> << >>

\* a queued action as the renderer reads it
Authored(act) ==
  SceneAction(act.type, act.character, Letters(act.text),
              IF act.effect = Undefined THEN "" ELSE act.effect,
              IF act.image = Undefined THEN "" ELSE act.image)

\* the script of the scenes written, in the order of the scene objects
AuthoredScript(s) ==
  [o \in DOMAIN s.sceneObjects |->
     Scene("", [i \in 1..Len(s.sceneObjects[o].actions) |->
                  Authored(s.sceneObjects[o].actions[i])])]

\* Scene.addAction: an engine built on the scenes reads the same _actions
\* array, so its script has the new action at once
addAction(s, o, act) ==
  Let([s EXCEPT !.sceneObjects[o].actions = Append(@, act),
                !.imagesThen = Let(ImageNow(s, act), LAMBDA now :
                  IF o \in DOMAIN @ THEN [@ EXCEPT ![o] = Append(@, now)]
                  ELSE (o :> << now >>) @@ @)],
      LAMBDA s1 :
        IF s1.script = << >> THEN s1
        ELSE [s1 EXCEPT !.script = AuthoredScript(s1)])

\* the error of a character that has no scene: its name and what it was
\* to do
NotInScene(s, c, doing) ==
  Throw(s, << s.characterObjects[c].name, doing >>)

\* say that would queue nothing for a character without a scene
say_silent(s, c, text, effect) ==
  IF s.characterObjects[c].currentScene = Null THEN s
  ELSE addAction(s, s.characterObjects[c].currentScene,
         Queued("dialogue", c, text, effect, Undefined, Undefined, Undefined))

\* Character.say
say(s, c, text, effect) ==
  IF s.characterObjects[c].currentScene = Null
  THEN NotInScene(s, c, "speaking")
  ELSE addAction(s, s.characterObjects[c].currentScene,
         Queued("dialogue", c, text, effect, Undefined, Undefined, Undefined))

\* show that would prefer the stored position and size to the options
show_storedFirst(s, c, opts) ==
  IF s.characterObjects[c].currentScene = Null
  THEN NotInScene(s, c, "showing")
  ELSE addAction(s, s.characterObjects[c].currentScene,
         Queued("show", c, Undefined, Undefined,
                Coalesce(s.characterObjects[c].position, opts.position),
                Coalesce(s.characterObjects[c].size, opts.size), Undefined))

\* Character.show
show(s, c, opts) ==
  IF s.characterObjects[c].currentScene = Null
  THEN NotInScene(s, c, "showing")
  ELSE addAction(s, s.characterObjects[c].currentScene,
         Queued("show", c, Undefined, Undefined,
                Coalesce(opts.position, s.characterObjects[c].position),
                Coalesce(opts.size, s.characterObjects[c].size), Undefined))

\* hide that would take the latest action back
hide_undoes(s, c) ==
  IF s.characterObjects[c].currentScene = Null
  THEN NotInScene(s, c, "hiding")
  ELSE [s EXCEPT !.sceneObjects[s.characterObjects[c].currentScene].actions =
          IF @ = << >> THEN @ ELSE SubSeq(@, 1, Len(@) - 1)]

\* Character.hide
hide(s, c) ==
  IF s.characterObjects[c].currentScene = Null
  THEN NotInScene(s, c, "hiding")
  ELSE addAction(s, s.characterObjects[c].currentScene,
         Queued("hide", c, Undefined, Undefined, Undefined, Undefined,
                Undefined))

\* an image setter that would queue the action whatever the value
set_image_always(s, c, value) ==
  Let([s EXCEPT !.characterObjects[c].image = value], LAMBDA s1 :
    IF s1.characterObjects[c].currentScene # Null
    THEN addAction(s1, s1.characterObjects[c].currentScene,
           Queued("setImage", c, Undefined, Undefined, Undefined, Undefined,
                  value))
    ELSE s1)

\* Character.image (setter)
set_image(s, c, value) ==
  Let([s EXCEPT !.characterObjects[c].image = value], LAMBDA s1 :
    IF s1.characterObjects[c].currentScene # Null /\ value # Undefined
    THEN addAction(s1, s1.characterObjects[c].currentScene,
           Queued("setImage", c, Undefined, Undefined, Undefined, Undefined,
                  value))
    ELSE s1)

\* Character.position, Character.size and Character.currentScene (setters)
set_position(s, c, value) == [s EXCEPT !.characterObjects[c].position = value]
set_size(s, c, value) == [s EXCEPT !.characterObjects[c].size = value]
set_currentScene(s, c, scene) ==
  [s EXCEPT !.characterObjects[c].currentScene = scene]

\* Scene.add
add(s, o, c, opts) ==
  Let([s EXCEPT !.sceneObjects[o].characters = @ \cup { c }], LAMBDA s1 :
    Let(set_currentScene(s1, c, o), LAMBDA s2 :
      addAction(s2, o,
        Queued("show", c, Undefined, Undefined,
               Coalesce(opts.position, s2.characterObjects[c].position),
               Coalesce(opts.size, s2.characterObjects[c].size),
               Undefined))))

\* the first character, whose image and scene the author also sets
Alice == 1

\* what the author passes
NoOptions == [position |-> Undefined, size |-> Undefined]
ShowOptions ==
  [position : { Undefined, "right" }, size : { Undefined, "small" }]
    \ { NoOptions }
Positions == { Undefined, "left" }
Sizes == { Undefined, "big" }
Images == { Undefined, "alice-happy.png" }
\* the action the author queues with addAction itself
Narration ==
  Queued("dialogue", Null, "Test", Undefined, Undefined, Undefined, Undefined)

\* two scenes and two characters
InitAuthor ==
  Begin([Blank(<< >>) EXCEPT
           !.sceneObjects = << NewScene("scene1"), NewScene("scene2") >>,
           !.characterObjects = << NewCharacter("Alice", Undefined),
                                   NewCharacter("Bob", "bob.png") >>],
        "page")

\* the actions queued so far
Entries ==
  LET RECURSIVE Sum(_)
      Sum(os) == IF os = { } THEN 0
                 ELSE LET o == CHOOSE x \in os : TRUE
                      IN  Len(sceneObjects[o].actions) + Sum(os \ { o })
  IN  Sum(DOMAIN sceneObjects)

\* state at the start of a call of the author
Authoring(op, arg) == [St EXCEPT !.outcome = Called(op, arg)]

\* scene.add(character)
SceneAddStep ==
  \E o \in DOMAIN sceneObjects : \E c \in DOMAIN characterObjects :
    \E s \in { Authoring("add", << o, c, NoOptions >>) } :
      Commit(add(s, o, c, NoOptions), "add")

SceneAddCall == Entries < MaxEntries /\ SceneAddStep

\* scene.add(character, options)
SceneAddOptionsCall ==
  /\ Entries < MaxEntries
  /\ \E o \in DOMAIN sceneObjects : \E c \in DOMAIN characterObjects :
       \E opts \in ShowOptions :
         \E s \in { Authoring("add", << o, c, opts >>) } :
           Commit(add(s, o, c, opts), "add")

AddActionCall ==
  /\ Entries < MaxEntries
  /\ \E o \in DOMAIN sceneObjects :
       \E s \in { Authoring("addAction", << o >>) } :
         Commit(addAction(s, o, Narration), "addAction")

\* character.say("Hello", {effect: "fade"})
SayStep ==
  \E c \in DOMAIN characterObjects :
    \E s \in { Authoring("say", << c >>) } :
      Commit(say(s, c, "Hello", "fade"), "say")

SayCall == Entries < MaxEntries /\ SayStep

\* character.show()
ShowCall ==
  /\ Entries < MaxEntries
  /\ \E c \in DOMAIN characterObjects :
       \E s \in { Authoring("show", << c, NoOptions >>) } :
         Commit(show(s, c, NoOptions), "show")

\* character.show(options)
ShowOptionsCall ==
  /\ Entries < MaxEntries
  /\ \E c \in DOMAIN characterObjects : \E opts \in ShowOptions :
       \E s \in { Authoring("show", << c, opts >>) } :
         Commit(show(s, c, opts), "show")

HideCall ==
  /\ Entries < MaxEntries
  /\ \E c \in DOMAIN characterObjects :
       \E s \in { Authoring("hide", << c >>) } :
         Commit(hide(s, c), "hide")

\* alice.image = value
SetImageStep ==
  \E value \in Images :
    \E s \in { Authoring("image", << Alice, value >>) } :
      Commit(set_image(s, Alice, value), "image")

SetImageCall == Entries < MaxEntries /\ SetImageStep

SetPositionCall ==
  \E value \in Positions :
    \E s \in { Authoring("position", << Alice, value >>) } :
      Commit(set_position(s, Alice, value), "position")

SetSizeCall ==
  \E value \in Sizes :
    \E s \in { Authoring("size", << Alice, value >>) } :
      Commit(set_size(s, Alice, value), "size")

SetCurrentSceneCall ==
  \E scene \in { Null } \cup DOMAIN sceneObjects :
    \E s \in { Authoring("currentScene", << Alice, scene >>) } :
      Commit(set_currentScene(s, Alice, scene), "currentScene")

\* the author queues actions of two characters in two scenes
NextAuthor ==
  \/ SceneAddCall \/ AddActionCall \/ SayCall \/ ShowCall \/ HideCall
  \/ SetImageCall \/ SetCurrentSceneCall

AuthorSpec == InitAuthor /\ [][NextAuthor]_vars

\* one scene and one character, which the author places
InitPlacement ==
  Begin([Blank(<< >>) EXCEPT
           !.sceneObjects = << NewScene("scene1") >>,
           !.characterObjects = << NewCharacter("Alice", Undefined) >>],
        "page")

NextPlacement ==
  \/ SceneAddCall \/ SceneAddOptionsCall \/ ShowCall \/ ShowOptionsCall
  \/ SetPositionCall \/ SetSizeCall

PlacementSpec == InitPlacement /\ [][NextPlacement]_vars

\* ------------------------------------------------------------------------
\* Playback with the page calling jumpTo and next: each call and each click
\* of the user is a task of its own, run when no promise job is left
\* ------------------------------------------------------------------------
\* scripts of one scene: a character shown and a typed dialogue, or three
\* dialogues that fade in, are typed and appear at once
JumpScripts ==
  { sc \in Scripts :
      Len(sc) = 1 /\ sc[1] \in { SceneList[2], SceneList[3] } }

InitJump ==
  \E sc \in JumpScripts : \E start \in 1..Len(sc) :
    Begin(Constructed(sc, start), "construct")

ClickTask == microtasks = << >> /\ Click

JumpToTask == microtasks = << >> /\ calls < MaxJumps /\ JumpToCall

NextTask == microtasks = << >> /\ calls < MaxJumps /\ NextCall

NextJump ==
  \/ ClickTask \/ Microtask \/ TypewriterTick \/ FadeTimeout
  \/ JumpToTask \/ NextTask

JumpSpec == InitJump /\ [][NextJump]_vars

\* ------------------------------------------------------------------------
\* A scene is written and played: the author queues the actions of one
\* character in one scene, before and after the engine is constructed on
\* that scene, and the user clicks through it
\* ------------------------------------------------------------------------
\* one scene and one character that has an image
InitReplay ==
  Begin([Blank(<< >>) EXCEPT
           !.sceneObjects = << NewScene("scene1") >>,
           !.characterObjects = << NewCharacter("Alice", "alice.png") >>],
        "page")

\* the author queues another action
Writing == Entries < MaxReplayed

WriteAdd == Writing /\ SceneAddStep

WriteSay == Writing /\ SayStep

WriteImage == Writing /\ SetImageStep

\* new VNEngine({script, startScene}) on the scenes written so far
StartPlayback ==
  /\ script = << >>
  /\ \E s \in { [St EXCEPT !.script = AuthoredScript(St)] } :
       Commit(ConstructedOn(s, 1), "construct")

PlayClick == script # << >> /\ Click

NextReplay ==
  \/ WriteAdd \/ WriteSay \/ WriteImage \/ StartPlayback
  \/ PlayClick \/ Microtask \/ FadeTimeout

ReplaySpec == InitReplay /\ [][NextReplay]_vars

\* ------------------------------------------------------------------------
\* Listeners that call the engine back: no document, and the page registers
\* for sceneChange a listener that only listens and one that redirects
\* ------------------------------------------------------------------------
Redirecting == { "listener1", "redirect" }

InitReentrant ==
  \E sc \in PlainScripts : \E start \in 1..Len(sc) :
    Begin(ConstructedHeadless(sc, start, { }), "construct")

OnSceneChangeCall ==
  \E l \in Redirecting :
    \E s \in { Registering("on", "sceneChange", l) } :
      Commit(on(s, "sceneChange", l), "on")

OffSceneChangeCall ==
  \E l \in Redirecting :
    \E s \in { Registering("off", "sceneChange", l) } :
      Commit(off(s, "sceneChange", l), "off")

NextReentrant ==
  OnSceneChangeCall \/ OffSceneChangeCall \/ JumpToCall \/ NextCall

ReentrantSpec == InitReentrant /\ [][NextReentrant]_vars

\* ------------------------------------------------------------------------
\* The engine driven through its own methods only: construction, then calls
\* of jumpTo, next and setVariable
\* ------------------------------------------------------------------------
NextOwn == JumpToCall \/ NextCall \/ SetVariableCall

OwnSpec == InitAnyStart /\ [][NextOwn]_vars

NextEffects ==
  \/ StartTypewriter \/ StartFade \/ StartFadeOut \/ CancelCall
  \/ TypewriterTick \/ FadeTimeout

EffectSpec == InitEffects /\ [][NextEffects]_vars

\* the page that also assigns the cancelled flag of the promises it keeps
NextFlagged == NextEffects \/ SetCancelledCall

FlaggedEffectSpec == InitEffects /\ [][NextFlagged]_vars

\* ------------------------------------------------------------------------
\* Vocabulary of the properties
\* ------------------------------------------------------------------------
Min0(a, b) == IF a < b THEN a ELSE b

\* the current scene's action log
CurActions ==
  IF currentScene(St) = Null THEN << >> ELSE actionsOf(St, currentScene(St))

\* the action has the fields processAction requires of its type
WellFormed(act) ==
  CASE act.type = "setImage" -> act.character # Null /\ act.image # ""
    [] act.type = "dialogue" -> act.character # Null /\ act.text # << >>
    [] OTHER -> act.character # Null

NonBlocking(act) == act.type \in { "show", "hide", "setImage" } /\ WellFormed(act)
BlockingDialogue(act) == act.type = "dialogue" /\ WellFormed(act)

OnAction == currentActionIndex < Len(CurActions)
CurAction == CurActions[currentActionIndex + 1]

\* an effect started for the action the controller is on is still in flight
CurrentEffectInFlight ==
  \E a \in DOMAIN anims :
    /\ InFlight(St, a)
    /\ anims[a].epoch = Epoch(St)
    /\ anims[a].idx = currentActionIndex

AnyEffectInFlight == \E a \in DOMAIN anims : InFlight(St, a)

\* log entries of the current playthrough that record a processed action
Processed(i) ==
  \E j \in 1..Len(log) :
    /\ log[j].ev = "action" /\ log[j].idx = i
    /\ Cardinality({ k \in 1..j : log[k].ev = "scene" }) = Epoch(St)

\* the controller's own view of being at rest
AtRest == currentAnimation = Null /\ ~isProcessing

\* the step just taken was an advance signal / some other step
ClickStep == lastStep' \in { "cancel", "advance", "drop" }
OtherStep == lastStep' \in { "job", "tick", "timeout" }

Name(act) == Characters[act.character].name

\* ------------------------------------------------------------------------
\* C1: a click that arrives while the dialogue animation of the current
\* action is in flight cancels it, clears currentAnimation and isProcessing,
\* keeps currentActionIndex and leaves the full text of that action displayed
\* ------------------------------------------------------------------------
C1_ClickRevealsDialogue ==
  [][ (CurrentEffectInFlight /\ ClickStep) =>
        /\ currentAnimation' = Null
        /\ isProcessing' = FALSE
        /\ currentActionIndex' = currentActionIndex
        /\ ~AnyEffectInFlight'
        /\ dialogueText' = CurAction.text ]_vars

\* ------------------------------------------------------------------------
\* C2: at rest on action i with i+1 inside the log, one click processes
\* action i+1 next; a click that cancels an animation does not advance, the
\* controller then stays at rest on the action until the next click, and
\* that click moves past it
\* ------------------------------------------------------------------------
ProcessesNext ==
  /\ Len(log') > Len(log)
  /\ SubSeq(log', 1, Len(log)) = log
  /\ log'[Len(log) + 1].ev = "action"
  /\ log'[Len(log) + 1].scene = currentSceneId
  /\ log'[Len(log) + 1].idx = currentActionIndex + 1

MovesOn == currentActionIndex' = currentActionIndex + 1 \/ Len(log') > Len(log)

Stays == currentActionIndex' = currentActionIndex /\ log' = log

C2_TwoPhaseAdvance ==
  [][ /\ (ClickStep /\ AtRest /\ currentActionIndex + 1 < Len(CurActions))
         => ProcessesNext
      /\ (ClickStep /\ currentAnimation # Null) => (AtRest' /\ Stays)
      /\ (OtherStep /\ AtRest) => (AtRest' /\ Stays)
      /\ (ClickStep /\ AtRest) => MovesOn ]_vars

\* a click has cancelled an animation and the next click has moved on
C2_Witness ==
  /\ lastStep = "advance"
  /\ currentActionIndex >= 1
  /\ OnAction
  /\ \E a \in DOMAIN anims :
       /\ anims[a].cancelled
       /\ anims[a].epoch = Epoch(St)
       /\ anims[a].idx = currentActionIndex - 1

\* ------------------------------------------------------------------------
\* C3: the actions of a playthrough are processed in the order 0,1,2,...
\* and no action is processed while the animation of an earlier action of
\* the same playthrough is still in flight
\* ------------------------------------------------------------------------
LogInOrder ==
  /\ log # << >> => log[1].ev = "scene"
  /\ \A i \in 2..Len(log) :
       log[i].ev = "action" =>
         /\ log[i].scene = log[i - 1].scene
         /\ log[i].idx = IF log[i - 1].ev = "scene" THEN 0 ELSE log[i - 1].idx + 1

NoOverlap == \A i \in 1..Len(log) : ~log[i].overlap

C3_StrictlyInOrder == LogInOrder /\ NoOverlap

\* ------------------------------------------------------------------------
\* C4: well-formed show, hide and setImage actions advance by themselves:
\* the controller never rests on one, a scene load runs through to the first
\* other action, and there the effects of the preceding actions are applied
\* in order (and the dialogue's speaker is shown)
\* ------------------------------------------------------------------------
RECURSIVE FirstRest(_, _)
FirstRest(acts, k) ==
  IF k < Len(acts) /\ NonBlocking(acts[k + 1]) THEN FirstRest(acts, k + 1) ELSE k

RECURSIVE Replay(_, _, _)
Replay(s, acts, k) ==
  IF k = 0 THEN s
  ELSE Let(Replay(s, acts, k - 1), LAMBDA t :
         LET act == acts[k]
         IN  CASE act.type = "show" -> showCharacter(t, act.character)
               [] act.type = "hide" -> hideCharacter(t, act.character)
               [] act.type = "setImage" -> setCharacterImage(t, act.character, act.image))

C4_NonBlockingAdvance ==
  LET k == FirstRest(CurActions, 0) IN
  /\ OnAction => ~NonBlocking(CurAction)
  /\ currentActionIndex >= k
  /\ \A j \in 0..(Len(CurActions) - 1) : j <= k => Processed(j)
  /\ (OnAction /\ currentActionIndex = k) =>
       /\ characterElements =
            Replay([St EXCEPT !.characterElements = << >>], CurActions, k).characterElements
       /\ BlockingDialogue(CurAction) => speakerName = Name(CurAction)

\* a load has run through several non-blocking actions to a dialogue
C4_Witness ==
  /\ lastStep = "construct"
  /\ currentActionIndex = 2
  /\ OnAction /\ BlockingDialogue(CurAction)
  /\ characterElements # << >>

\* ------------------------------------------------------------------------
\* C5: a dialogue blocks: no step other than a click changes the action
\* index, and once the dialogue's effect is over and the promise jobs have
\* run the controller is at rest on it showing its speaker and full text
\* ------------------------------------------------------------------------
RestsOnDialogue ==
  (/\ microtasks = << >>
   /\ OnAction /\ BlockingDialogue(CurAction)
   /\ Processed(currentActionIndex)
   /\ ~CurrentEffectInFlight)
  => (/\ AtRest
      /\ speakerName = Name(CurAction)
      /\ dialogueText = CurAction.text)

C5_DialogueBlocks ==
  /\ []RestsOnDialogue
  /\ [][ OtherStep => (Stays /\ currentSceneId' = currentSceneId) ]_vars

\* ------------------------------------------------------------------------
\* C6: a click while isProcessing is set and no animation handle is held
\* is dropped: index, scene, history and displayed dialogue are unchanged
\* ------------------------------------------------------------------------
C6_DroppedClick ==
  [][ (ClickStep /\ isProcessing /\ currentAnimation = Null) =>
        UNCHANGED << currentActionIndex, currentSceneId, sceneHistory,
                     dialogueText, speakerName, log >> ]_vars

C6_Witness ==
  lastStep = "drop" /\ isProcessing /\ currentAnimation = Null /\ OnAction

\* ------------------------------------------------------------------------
\* C7: when an advance runs the index to the end of the log the engine's
\* next() is tried: with a next scene, that scene is played from index 0;
\* without one, text and speaker are cleared and the controller idles on the
\* same scene, and further clicks change neither the scene nor the display
\* ------------------------------------------------------------------------
\* every action after the current one advances by itself
RunsToEnd ==
  \A j \in 1..Len(CurActions) : j > currentActionIndex + 1 => NonBlocking(CurActions[j])

Exhausted ==
  /\ currentSceneId = Len(script)
  /\ currentActionIndex >= Len(CurActions)
  /\ currentActionIndex > 0

Cleared == dialogueText = << >> /\ speakerName = ""

EntersNextScene ==
  LET n == Len(log) + Len(CurActions) - Min0(currentActionIndex + 1, Len(CurActions))
      nxt == currentSceneId + 1
  IN  /\ sceneHistory' # sceneHistory
      /\ SubSeq(sceneHistory', 1, Len(sceneHistory) + 1) = Append(sceneHistory, currentSceneId)
      /\ Len(log') > n
      /\ log'[n + 1].ev = "scene" /\ log'[n + 1].scene = nxt
      /\ script[nxt].actions # << >> =>
           /\ Len(log') > n + 1
           /\ log'[n + 2].ev = "action" /\ log'[n + 2].scene = nxt /\ log'[n + 2].idx = 0

IdleWhenExhausted == (Exhausted /\ microtasks = << >>) => AtRest

EndOfSceneStep ==
  /\ (lastStep' = "advance" /\ RunsToEnd /\ currentSceneId < Len(script))
       => EntersNextScene
  /\ (lastStep' = "advance" /\ RunsToEnd /\ currentSceneId = Len(script))
       => (/\ Exhausted' /\ Cleared' /\ currentAnimation' = Null
           /\ UNCHANGED << currentSceneId, sceneHistory >>)
  /\ (lastStep' = "advance" /\ Exhausted') => Cleared'
  /\ (OtherStep /\ Exhausted)
       => (Exhausted' /\ currentActionIndex' = currentActionIndex)
  /\ (ClickStep /\ Exhausted /\ Cleared)
       => (Cleared' /\ UNCHANGED << currentSceneId, sceneHistory >>)

C7_EndOfScene == []IdleWhenExhausted /\ [][EndOfSceneStep]_vars

\* the last scene of a two-scene script has been exhausted by a click, and a
\* further click has been received
C7_Witness ==
  /\ lastStep = "advance"
  /\ sceneHistory = << 1 >>
  /\ Exhausted /\ Cleared
  /\ currentActionIndex > Len(CurActions)

\* ------------------------------------------------------------------------
\* C8: a scene change discards the previous scene's character elements and
\* starts the new scene at index 0: every element on stage was created in
\* the current playthrough, and every scene change in the log is followed by
\* action 0 of that scene
\* ------------------------------------------------------------------------
C8_SceneChangeResets ==
  /\ \A c \in DOMAIN characterElements : characterElements[c].epoch = Epoch(St)
  /\ \A i \in 1..Len(log) :
       log[i].ev = "scene" =>
         IF script[log[i].scene].actions # << >>
         THEN /\ i < Len(log)
              /\ log[i + 1].ev = "action"
              /\ log[i + 1].scene = log[i].scene
              /\ log[i + 1].idx = 0
         ELSE i = Len(log) \/ log[i + 1].ev = "scene"

\* the second scene shows a character that the first scene had on stage
C8_Witness ==
  /\ Epoch(St) = 2
  /\ \E c \in DOMAIN characterElements :
       \E j \in 1..Len(script[1].actions) :
         script[1].actions[j].type = "show" /\ script[1].actions[j].character = c

\* ------------------------------------------------------------------------
\* C9: a malformed action has no effect and is not advanced past
\* automatically (nothing is processed after it in the same step), the
\* controller comes to rest on it once the promise jobs have run, and the
\* next click then moves past it
\* ------------------------------------------------------------------------
LastLogged == log[Len(log)]
LastLoggedAction(l) == script[l[Len(l)].scene].actions[l[Len(l)].idx + 1]

\* entry j of log l is the processing of a malformed action
MalformedEntry(l, j) ==
  /\ l[j].ev = "action"
  /\ ~WellFormed(script[l[j].scene].actions[l[j].idx + 1])

RestsOnMalformed ==
  /\ (log # << >> /\ LastLogged.ev = "action" /\ ~WellFormed(LastLoggedAction(log)))
       => (currentSceneId = LastLogged.scene /\ currentActionIndex = LastLogged.idx
           /\ currentAnimation = Null)
  /\ (microtasks = << >> /\ OnAction /\ ~WellFormed(CurAction)
      /\ Processed(currentActionIndex)) => AtRest
  /\ (lastStep = "construct" /\ currentActionIndex = 0 /\ OnAction
      /\ ~WellFormed(CurAction))
       => (Cleared /\ characterElements = << >> /\ anims = << >>)
  /\ lastStep = "construct"
       => \A j \in 1..(Len(log) - 1) : ~MalformedEntry(log, j)

C9_MalformedSkipped ==
  /\ []RestsOnMalformed
  /\ [][ /\ \A j \in (Len(log) + 1)..(Len(log') - 1) : ~MalformedEntry(log', j)
         /\ (lastStep' = "advance" /\ Len(log') = Len(log) + 1
             /\ log'[Len(log')].ev = "action" /\ ~WellFormed(LastLoggedAction(log')))
            => UNCHANGED << characterElements, dialogueText, speakerName,
                            background, currentAnimation, anims >>
         /\ (ClickStep /\ AtRest /\ OnAction /\ ~WellFormed(CurAction))
            => MovesOn ]_vars

\* a click has moved playback past a malformed action
C9_Witness ==
  /\ lastStep = "advance"
  /\ currentActionIndex >= 1
  /\ currentActionIndex <= Len(CurActions)
  /\ ~WellFormed(CurActions[currentActionIndex])
  /\ Processed(currentActionIndex - 1)

\* ------------------------------------------------------------------------
\* C10: with clicks arriving, timers firing and promise jobs running, a
\* script of well-formed actions started at its first scene is played
\* through every scene in insertion order to the end of the last scene, where
\* the dialogue display is cleared
\* ------------------------------------------------------------------------
AllWellFormed ==
  \A i \in 1..Len(script) :
    \A j \in 1..Len(script[i].actions) : WellFormed(script[i].actions[j])

StartedAtFirst == lastStep = "construct" /\ currentSceneId = 1 /\ AllWellFormed

PlayedThrough ==
  /\ currentSceneId = Len(script)
  /\ sceneHistory = [i \in 1..(Len(script) - 1) |-> i]
  /\ currentActionIndex >= Len(CurActions)
  /\ \A j \in 0..(Len(CurActions) - 1) : Processed(j)
  /\ Cleared

\* The browser delivers every click, runs every queued promise job and fires
\* every armed timer: a step that stays possible is eventually taken. A click
\* that is dropped again changes nothing and is no step.
Fairness ==
  /\ WF_vars(Click)
  /\ WF_vars(Microtask)
  /\ WF_vars(TypewriterTick)
  /\ WF_vars(FadeTimeout)

FairSpec == Init /\ [][Next]_vars /\ Fairness

C10_PlaysThrough == StartedAtFirst ~> PlayedThrough

\* a two-scene script has been played through to the cleared end
C10_Witness ==
  /\ AllWellFormed
  /\ Len(script) = 2
  /\ PlayedThrough
  /\ lastStep = "advance"

\* ------------------------------------------------------------------------
\* C11: however many times cancel() is called on an effect, its cleanup
\* callback has run exactly once and the effect is cancelled from the first
\* call on; an effect never cancelled has run no cleanup.  The calls are
\* calls of cancel(): an effect whose flag the page has assigned through
\* the cancelled setter is not spoken of
\* ------------------------------------------------------------------------
CleanupOnce ==
  \A a \in DOMAIN anims :
    anims[a].writes = 0 =>
      IF anims[a].cancels >= 1
      THEN anims[a].cleanups = 1 /\ anims[a].cancelled
      ELSE anims[a].cleanups = 0 /\ ~anims[a].cancelled

StaysCancelled ==
  \A a \in DOMAIN anims :
    (anims[a].cancelled /\ anims[a].writes = 0) =>
      /\ a \in DOMAIN anims'
      /\ anims'[a].cancelled \/ anims'[a].writes > 0

C11_CancelIdempotent == []CleanupOnce /\ [][StaysCancelled]_vars

\* cancel() has been called a second time on one effect
C11_Witness ==
  /\ lastStep = "cancelCall"
  /\ \E a \in DOMAIN anims :
       anims[a].cancels = 2 /\ anims[a].cleanups = 1 /\ anims[a].cancelled

\* ------------------------------------------------------------------------
\* C12: an effect is pending, cancelled or completed and the last two are
\* final: one that completed naturally is never cancelled later and its
\* cleanup callback never runs (for an effect whose flag only cancel() has
\* touched)
\* ------------------------------------------------------------------------
Status(a) ==
  { st \in { "pending", "cancelled", "completed" } :
      \/ st = "pending" /\ InFlight(St, a)
      \/ st = "cancelled" /\ anims[a].cancelled
      \/ st = "completed" /\ anims[a].completed }

C12_TerminalStates ==
  \A a \in DOMAIN anims :
    anims[a].writes = 0 =>
      /\ Cardinality(Status(a)) = 1
      /\ anims[a].completed => (~anims[a].cancelled /\ anims[a].cleanups = 0)

\* ------------------------------------------------------------------------
\* C13: when cancel() returns on a typewriter in flight the element shows
\* the full text and the promise is resolved (the code has no call that
\* rejects it); from then on no tick is scheduled for it, and a tick of it
\* that fired all the same would change nothing (the flag being the one
\* cancel() set, not one assigned through the cancelled setter)
\* ------------------------------------------------------------------------
CancelledInFlight(a) ==
  /\ anims[a].kind = "typewriter" /\ anims[a].cancelled
  /\ ~anims[a].completed /\ anims[a].writes = 0

LateTickHarmless ==
  \A a \in DOMAIN anims :
    CancelledInFlight(a) =>
      /\ ~anims[a].timer
      /\ ~InFlight(St, a)
      /\ typewriterTick(St, a) = St

CancelShowsFullText ==
  \A a \in DOMAIN anims :
    (/\ lastStep' = "cancelCall"
     /\ anims[a].kind = "typewriter" /\ InFlight(St, a) /\ ~anims[a].cancelled
     /\ anims'[a].cancels = anims[a].cancels + 1)
    => (/\ dialogueText' = anims[a].text
        /\ anims'[a].cancelled
        /\ promises'[anims'[a].p].state = "fulfilled")

C13_TypewriterCancelFinal ==
  []LateTickHarmless /\ [][CancelShowsFullText]_vars

\* a typewriter has been cancelled after its first character, with more to
\* come
C13_Witness ==
  /\ lastStep = "cancelCall"
  /\ \E a \in DOMAIN anims :
       /\ CancelledInFlight(a)
       /\ anims[a].index = 1
       /\ Len(anims[a].text) = 2
       /\ dialogueText = anims[a].text

\* ------------------------------------------------------------------------
\* Vocabulary of the engine properties
\* ------------------------------------------------------------------------
\* what the renderer holds
rendererVars ==
  << currentActionIndex, isProcessing, currentAnimation, characterElements,
     background, speakerName, dialogueText, opacity, anims, promises,
     microtasks, log >>

\* sceneHistory once the setter has run for a new id
Pushed ==
  IF currentSceneId # Null THEN Append(sceneHistory, currentSceneId)
  ELSE sceneHistory

\* the sceneChange event of a jumpTo(id) made in the current state
Expected(id) ==
  [type |-> "sceneChange", sceneId |-> id, key |-> "", value |-> Null,
   cur |-> id, hist |-> Pushed, seen |-> Null]

\* number of events of the last step that carry scene id
Carrying(evs, id) ==
  Cardinality({ i \in 1..Len(evs) :
                  evs[i].type = "sceneChange" /\ evs[i].sceneId = id })

\* every action of the log is one the renderer applies and passes
OnlyNonBlocking(acts) ==
  \A j \in 1..Len(acts) : acts[j].type # "dialogue" /\ WellFormed(acts[j])

\* the renderer, told of a change to scene id, plays through a scene that
\* has actions, all of them non-blocking, and calls next(); RestsAt(id) is
\* the scene on which that comes to an end
RECURSIVE RestsAt(_)
RestsAt(id) ==
  IF /\ script[id].actions # << >>
     /\ OnlyNonBlocking(script[id].actions)
     /\ id < Len(script)
  THEN RestsAt(id + 1)
  ELSE id

\* sceneHistory before the k-th scene change of a call that jumps to id
Trail(id, k) == Pushed \o [j \in 1..(k - 1) |-> id + j - 1]

\* the call has jumped to id and the renderer has moved on from there:
\* one assignment and one event for each of the scenes id..RestsAt(id), the
\* event emitted after its assignment, and the last of them is current
JumpsTo(id) ==
  LET n == RestsAt(id) - id + 1 IN
  /\ events' = [k \in 1..n |->
                  [type |-> "sceneChange", sceneId |-> id + k - 1, key |-> "",
                   value |-> Null, cur |-> id + k - 1, hist |-> Trail(id, k),
                   seen |-> Null]]
  /\ assigns' = [k \in 1..n |->
                   [op |-> "set",
                    prev |-> IF k = 1 THEN currentSceneId ELSE id + k - 2,
                    id |-> id + k - 1]]
  /\ currentSceneId' = RestsAt(id)
  /\ sceneHistory' = Trail(id, n)
  /\ variables' = variables

\* ------------------------------------------------------------------------
\* C14 as stated: jumpTo(id) for an id the script does not have throws the
\* error naming id, changes neither currentSceneId nor sceneHistory and
\* emits nothing; for a scene of the script it returns with id current, the
\* previous id pushed and the one sceneChange event carrying id emitted
\* ------------------------------------------------------------------------
JumpLandsOnId ==
  lastStep' = "jumpTo" =>
    IF getScene(St, outcome'.arg) = Null
    THEN /\ outcome'.kind = "threw" /\ outcome'.id = outcome'.arg
         /\ events' = << >>
         /\ UNCHANGED << currentSceneId, sceneHistory >>
    ELSE /\ outcome'.kind = "returned"
         /\ currentSceneId' = outcome'.arg
         /\ sceneHistory' = Pushed
         /\ events' = << Expected(outcome'.arg) >>

C14_JumpLandsOnId == [][JumpLandsOnId]_vars

\* ------------------------------------------------------------------------
\* C14: jumpTo(id) for an id the script does not have throws the error
\* naming id, changes neither currentSceneId nor sceneHistory and emits
\* nothing; for a scene of the script it sets currentSceneId to id, pushing
\* the previous id, and then emits the sceneChange event carrying id; the
\* renderer, hearing it, plays through a scene of non-blocking actions only
\* and calls next(), so that the call returns with the scene current on
\* which that ends, every scene passed through pushed in order and one
\* event emitted for each: id itself, and nothing more than the one push
\* and the one event, when scene id is empty, has a dialogue or is the last
\* ------------------------------------------------------------------------
JumpToContract ==
  lastStep' = "jumpTo" =>
    IF getScene(St, outcome'.arg) = Null
    THEN /\ outcome'.kind = "threw" /\ outcome'.id = outcome'.arg
         /\ events' = << >> /\ assigns' = << >>
         /\ UNCHANGED << currentSceneId, sceneHistory, variables, rendererVars >>
    ELSE /\ outcome'.kind = "returned"
         /\ events'[1] = Expected(outcome'.arg)
         /\ Carrying(events', outcome'.arg) = 1
         /\ JumpsTo(outcome'.arg)

C14_JumpTo == [][JumpToContract]_vars

\* a jump to a scene that only shows a character has returned with the
\* scene after it current and both changes in the history
C14_Witness ==
  /\ lastStep = "jumpTo"
  /\ outcome.kind = "returned"
  /\ script[outcome.arg] = SceneList[8]
  /\ currentSceneId = outcome.arg + 1
  /\ Len(events) = 2
  /\ Len(sceneHistory) >= 2
  /\ sceneHistory[Len(sceneHistory)] = outcome.arg

\* ------------------------------------------------------------------------
\* C15 as stated: next() returns false and changes and emits nothing when
\* there is no current scene, when the current id is not in the script, or
\* when the current scene is the last; otherwise it returns true with the
\* scene that follows in insertion order current
\* ------------------------------------------------------------------------
NoFollowing ==
  \/ currentSceneId = Null
  \/ getSceneIndex(St, currentSceneId) = -1
  \/ getSceneByIndex(St, getSceneIndex(St, currentSceneId) + 1) = Null

NextLandsOnFollowing ==
  lastStep' = "next" =>
    IF NoFollowing
    THEN /\ outcome'.ret = "false"
         /\ events' = << >>
         /\ UNCHANGED << currentSceneId, sceneHistory >>
    ELSE /\ outcome'.ret = "true"
         /\ currentSceneId' = currentSceneId + 1
         /\ sceneHistory' = Pushed

C15_NextLandsOnFollowing == [][NextLandsOnFollowing]_vars

\* ------------------------------------------------------------------------
\* C15: next() returns false and changes and emits nothing when there is
\* no current scene, when the current id is not in the script, or when the
\* current scene is the last; otherwise it returns true after jumpTo of the
\* scene that follows in insertion order: that scene is made current and
\* its event emitted, and the call returns with it current unless the
\* renderer has played through it (non-blocking actions only, a scene after
\* it) and moved on, as for jumpTo
\* ------------------------------------------------------------------------
NextContract ==
  lastStep' = "next" =>
    IF NoFollowing
    THEN /\ outcome'.ret = "false"
         /\ events' = << >> /\ assigns' = << >>
         /\ UNCHANGED << currentSceneId, sceneHistory, variables, rendererVars >>
    ELSE /\ outcome'.ret = "true"
         /\ events'[1] = Expected(currentSceneId + 1)
         /\ JumpsTo(currentSceneId + 1)

C15_Next == [][NextContract]_vars

\* next() from the first of three scenes has returned true with the third
\* current: the renderer played through the second, which only shows a
\* character
C15_Witness ==
  /\ lastStep = "next"
  /\ outcome.ret = "true"
  /\ Len(script) = 3
  /\ script[2] = SceneList[8]
  /\ currentSceneId = 3
  /\ Len(events) = 2
  /\ Len(sceneHistory) >= 2
  /\ SubSeq(sceneHistory, Len(sceneHistory) - 1, Len(sceneHistory)) = << 1, 2 >>

\* ------------------------------------------------------------------------
\* C16 as stated: construction throws for a start id the script does not
\* have, and for every other start id it leaves that scene current, the
\* history empty and one sceneChange event for the start scene emitted
\* ------------------------------------------------------------------------
C16_StartSceneCurrent ==
  lastStep = "construct" =>
    IF getScene(St, outcome.arg) = Null
    THEN outcome.kind = "threw" /\ outcome.id = outcome.arg
    ELSE /\ outcome.kind = "returned"
         /\ currentSceneId = outcome.arg
         /\ sceneHistory = << >>
         /\ Carrying(events, outcome.arg) = 1

\* ------------------------------------------------------------------------
\* C16: construction throws the error naming the start id when the script
\* does not have it and nothing is emitted; otherwise the first event
\* emitted is the one sceneChange event for the start scene, emitted with
\* that scene current and the history empty, and the constructor returns
\* in that state unless the renderer, hearing the event, has run through a
\* start scene of non-blocking actions only and moved on to the scene that
\* follows it, which it does whenever the start scene is of that kind and
\* has a scene after it
\* ------------------------------------------------------------------------
C16_StartEventFirst ==
  lastStep = "construct" =>
    IF getScene(St, outcome.arg) = Null
    THEN /\ outcome.kind = "threw" /\ outcome.id = outcome.arg
         /\ events = << >> /\ currentSceneId = Null
    ELSE /\ outcome.kind = "returned"
         /\ events # << >>
         /\ events[1] = [type |-> "sceneChange", sceneId |-> outcome.arg,
                          key |-> "", value |-> Null, cur |-> outcome.arg,
                          hist |-> << >>, seen |-> Null]
         /\ Carrying(events, outcome.arg) = 1
         /\ currentSceneId = RestsAt(outcome.arg)
         /\ Len(events) = RestsAt(outcome.arg) - outcome.arg + 1
         /\ IF Len(events) = 1
            THEN currentSceneId = outcome.arg /\ sceneHistory = << >>
            ELSE /\ script[outcome.arg].actions # << >>
                 /\ OnlyNonBlocking(script[outcome.arg].actions)
                 /\ sceneHistory[1] = outcome.arg
                 /\ events[2].sceneId = outcome.arg + 1

\* the engine was constructed on a start scene of non-blocking actions and
\* the renderer has moved on to the second scene
C16_Witness ==
  /\ lastStep = "construct"
  /\ outcome.arg = 1
  /\ Len(events) = 2
  /\ currentSceneId = 2
  /\ sceneHistory = << 1 >>

\* ------------------------------------------------------------------------
\* C17: as long as clearHistory is not called, every step extends
\* sceneHistory by exactly the ids that were current just before each of
\* its assignments of currentSceneId, in order, leaving out an assignment
\* made while the id was null; nothing else is ever added or removed
\* ------------------------------------------------------------------------
IsSet(e) == e.op = "set"
HadScene(e) == e.op = "set" /\ e.prev # Null

\* the ids replaced by the assignments as
Replaced(as) ==
  LET kept == SelectSeq(as, HadScene)
  IN  [i \in 1..Len(kept) |-> kept[i].prev]

\* the assignments as start from id cur and follow one another
Chained(as, cur) ==
  \A i \in 1..Len(as) :
    as[i].prev = IF i = 1 THEN cur ELSE as[i - 1].id

NoClear(as) == \A i \in 1..Len(as) : IsSet(as[i])

HistoryFromStart ==
  (lastStep = "construct" /\ outcome.kind = "returned") =>
    /\ Chained(assigns, outcome.arg)
    /\ sceneHistory = Replaced(assigns)

HistoryGrowsByReplaced ==
  NoClear(assigns') =>
    /\ Chained(assigns', currentSceneId)
    /\ currentSceneId' = IF assigns' = << >> THEN currentSceneId
                          ELSE assigns'[Len(assigns')].id
    /\ sceneHistory' = sceneHistory \o Replaced(assigns')

C17_HistoryIsTrail == []HistoryFromStart /\ [][HistoryGrowsByReplaced]_vars

\* an id has been assigned while the current id was null, and the history
\* still ends with the last id that was current
C17_Witness ==
  /\ lastStep = "setSceneId"
  /\ assigns = << [op |-> "set", prev |-> Null, id |-> 1] >>
  /\ sceneHistory # << >>
  /\ calls = 2

\* ------------------------------------------------------------------------
\* C18: assigning currentSceneId the id it already holds, by the setter or
\* by jumpTo, pushes that id onto sceneHistory when it is not null
\* ------------------------------------------------------------------------
SameIdPushes ==
  (/\ lastStep' \in { "jumpTo", "setSceneId" }
   /\ outcome'.kind = "returned"
   /\ currentSceneId # Null
   /\ outcome'.arg = currentSceneId)
  => /\ Len(sceneHistory') > Len(sceneHistory)
     /\ SubSeq(sceneHistory', 1, Len(sceneHistory) + 1)
          = Append(sceneHistory, currentSceneId)

C18_SameIdPushes == [][SameIdPushes]_vars

\* jumpTo on the current scene has pushed its id
C18_Witness ==
  /\ lastStep = "jumpTo"
  /\ outcome.kind = "returned"
  /\ assigns = << [op |-> "set", prev |-> outcome.arg, id |-> outcome.arg] >>
  /\ currentSceneId = outcome.arg
  /\ sceneHistory[Len(sceneHistory)] = outcome.arg

\* ------------------------------------------------------------------------
\* C19: clearHistory() empties sceneHistory and changes nothing else, and
\* the first assignment of currentSceneId made while the history is empty
\* records the id it replaces as the first entry
\* ------------------------------------------------------------------------
ClearHistoryContract ==
  /\ lastStep' = "clearHistory" =>
       /\ sceneHistory' = << >>
       /\ events' = << >>
       /\ UNCHANGED << currentSceneId, variables, rendererVars >>
  /\ (/\ sceneHistory = << >> /\ currentSceneId # Null
      /\ assigns' # << >> /\ IsSet(assigns'[1]))
     => /\ sceneHistory' # << >>
        /\ sceneHistory'[1] = currentSceneId
        /\ Len(assigns') = 1 => sceneHistory' = << currentSceneId >>

C19_ClearHistory == [][ClearHistoryContract]_vars

\* the history held scene 1, was cleared, and the jump that followed has
\* recorded scene 2 as its only entry
C19_Witness ==
  /\ lastStep = "jumpTo"
  /\ script = << SceneList[8], SceneList[8] >>
  /\ log[1].scene = 1
  /\ sceneHistory = << 2 >>
  /\ calls = 2

\* ------------------------------------------------------------------------
\* C20: setVariable(key, value) stores the value and then emits the one
\* variableChange event carrying key and value, so that a listener reading
\* the variable during the dispatch gets the new value; no other variable
\* changes, and the only other call that changes one is the state
\* manager's own setVariable, which stores the value of its key and emits
\* nothing
\* ------------------------------------------------------------------------
SetVariableContract ==
  IF lastStep' = "setVariable"
  THEN /\ Len(events') = 1
       /\ events'[1].type = "variableChange"
       /\ events'[1].key = outcome'.arg
       /\ events'[1].value \in Values
       /\ events'[1].seen = events'[1].value
       /\ DOMAIN variables' = DOMAIN variables \cup { outcome'.arg }
       /\ variables'[outcome'.arg] = events'[1].value
       /\ \A k \in DOMAIN variables \ { outcome'.arg } :
            variables'[k] = variables[k]
       /\ UNCHANGED << currentSceneId, sceneHistory, rendererVars >>
  ELSE IF lastStep' = "storeVariable"
  THEN /\ events' = << >>
       /\ DOMAIN variables' = DOMAIN variables \cup { outcome'.arg }
       /\ variables'[outcome'.arg] \in Values
       /\ \A k \in DOMAIN variables \ { outcome'.arg } :
            variables'[k] = variables[k]
  ELSE variables' = variables

C20_SetVariable == [][SetVariableContract]_vars

\* a second variable has been set and read back by the listener
C20_Witness ==
  /\ lastStep = "setVariable"
  /\ DOMAIN variables = Keys
  /\ events[1].seen = variables[outcome.arg]

\* ------------------------------------------------------------------------
\* Vocabulary of the listener properties
\* ------------------------------------------------------------------------
\* the step is a call that can emit
Emitting == lastStep' \in { "jumpTo", "next", "setVariable" }

\* the listeners registered for a type when the step starts
Registered(type) == listenersOf(St, type)

\* the listeners registered for a type when the step ends
RegisteredAfter(type) ==
  IF type \in DOMAIN listeners' THEN listeners'[type] ELSE << >>

\* the listeners of ls that run: all of them, or those up to the first
\* one that throws
UpToThrow(ls) ==
  LET idx == { i \in 1..Len(ls) : ls[i] \in throwers } IN
  IF idx = { } THEN ls
  ELSE SubSeq(ls, 1, CHOOSE i \in idx : \A j \in idx : i <= j)

\* the calls of listeners ls with event ev, in order, each reading the
\* engine state the step ends in
CallsOf(ls, ev) ==
  [i \in 1..Len(ls) |-> [listener |-> ls[i], event |-> ev,
                         cur |-> currentSceneId', hist |-> sceneHistory']]

\* ------------------------------------------------------------------------
\* C21: when jumpTo, next or setVariable returns, every listener that was
\* registered for the type of the event it emitted has been called exactly
\* once with that event, in the order of registration, and no listener of
\* the other type has been called; a call that emits nothing calls no
\* listener, and neither does on or off
\* ------------------------------------------------------------------------
DispatchInOrder ==
  IF Emitting /\ events' # << >>
  THEN /\ Len(events') = 1
       /\ heard' = CallsOf(UpToThrow(Registered(events'[1].type)), events'[1])
       /\ outcome'.kind = "returned"
            => heard' = CallsOf(Registered(events'[1].type), events'[1])
  ELSE heard' = << >>

C21_DispatchInOrder == [][DispatchInOrder]_vars

\* two listeners of variableChange have been called in the order of their
\* registration while a listener of sceneChange was left alone
C21_Witness ==
  /\ lastStep = "setVariable"
  /\ outcome.kind = "returned"
  /\ listenersOf(St, "variableChange") = << "listener2", "listener1" >>
  /\ listenersOf(St, "sceneChange") = << "listener1" >>
  /\ Len(heard) = 2
  /\ heard[1].listener = "listener2" /\ heard[2].listener = "listener1"

\* ------------------------------------------------------------------------
\* C22: the listeners of an event type form a set: on() of a listener
\* already registered for the type changes nothing, so no listener is ever
\* registered, or called for one event, twice; off() removes the listener
\* and leaves the others in their order, and an emit calls no listener that
\* is not registered; off() of a listener that is not registered, or for a
\* type that has no listeners, returns without error and changes nothing;
\* on and off touch no other state
\* ------------------------------------------------------------------------
Has(ls, l) == \E i \in 1..Len(ls) : ls[i] = l

NoListenerTwice ==
  \A type \in DOMAIN listeners :
    \A i, j \in 1..Len(listeners[type]) :
      listeners[type][i] = listeners[type][j] => i = j

RegistrationContract ==
  /\ lastStep' = "on" =>
       LET type == outcome'.arg[1]
           l == outcome'.arg[2]
       IN  /\ RegisteredAfter(type) =
                IF Has(Registered(type), l) THEN Registered(type)
                ELSE Append(Registered(type), l)
           /\ \A ty \in EventTypes \ { type } :
                RegisteredAfter(ty) = Registered(ty)
  /\ lastStep' = "off" =>
       LET type == outcome'.arg[1]
           l == outcome'.arg[2]
       IN  /\ RegisteredAfter(type) = SelectSeq(Registered(type), LAMBDA x : x # l)
           /\ \A ty \in EventTypes \ { type } :
                RegisteredAfter(ty) = Registered(ty)
           /\ ~Has(Registered(type), l) => listeners' = listeners
  /\ lastStep' \in { "on", "off" } =>
       /\ outcome'.kind = "returned"
       /\ events' = << >>
       /\ UNCHANGED << currentSceneId, sceneHistory, variables, throwers,
                       calls, rendererVars >>
  /\ Emitting =>
       /\ listeners' = listeners
       /\ \A i \in 1..Len(heard') :
            /\ Has(Registered(heard'[i].event.type), heard'[i].listener)
            /\ \A j \in 1..Len(heard') :
                 heard'[i].listener = heard'[j].listener => i = j

C22_ListenerSets == []NoListenerTwice /\ [][RegistrationContract]_vars

\* on() has been called for a listener that was registered before another
\* one and has kept its place
C22_Witness ==
  /\ lastStep = "on"
  /\ outcome.arg = << "sceneChange", "listener1" >>
  /\ listeners["sceneChange"] = << "listener1", "listener2" >>

\* ------------------------------------------------------------------------
\* C23: when a listener throws during the dispatch, the call of jumpTo,
\* next or setVariable that emitted ends with that exception, no later
\* listener is called, and the change made before the dispatch stays: the
\* new current scene with its history entry, or the new value
\* ------------------------------------------------------------------------
ThrowPropagates ==
  (/\ Emitting /\ events' # << >>
   /\ \E i \in 1..Len(Registered(events'[1].type)) :
        Registered(events'[1].type)[i] \in throwers)
  => /\ outcome'.kind = "threw"
     /\ outcome'.ret = ""
     /\ heard' # << >>
     /\ outcome'.by = heard'[Len(heard')].listener
     /\ outcome'.by \in throwers
     /\ \A i \in 1..(Len(heard') - 1) : heard'[i].listener \notin throwers
     /\ IF events'[1].type = "sceneChange"
        THEN /\ currentSceneId' = events'[1].sceneId
             /\ sceneHistory' = Pushed
             /\ variables' = variables
        ELSE /\ variables'[events'[1].key] = events'[1].value
             /\ UNCHANGED << currentSceneId, sceneHistory >>

C23_ListenerThrows == [][ThrowPropagates]_vars

\* a jump has ended with the exception of the first listener, the second
\* was not called, and the engine is in the new scene
C23_Witness ==
  /\ lastStep = "jumpTo"
  /\ outcome.kind = "threw"
  /\ outcome.by = "listener2"
  /\ listenersOf(St, "sceneChange") = << "listener2", "listener1" >>
  /\ Len(heard) = 1
  /\ currentSceneId = outcome.arg
  /\ sceneHistory # << >>

\* ------------------------------------------------------------------------
\* C24: addScene of a scene whose id the script already has throws the
\* error naming that id and leaves the script as it was: the same scenes
\* in the same order, the same index, and getScene(id) still the scene
\* added first
\* ------------------------------------------------------------------------
DuplicateRejected ==
  (lastStep' = "addScene"
   /\ sceneObjects[outcome'.arg].id \in DOMAIN sceneMap)
  => /\ outcome'.kind = "threw"
     /\ outcome'.id = sceneObjects[outcome'.arg].id
     /\ UNCHANGED << sceneList, sceneMap, sceneObjects >>
     /\ Script_getScene(St', outcome'.id) = Script_getScene(St, outcome'.id)

C24_DuplicateScene == [][DuplicateRejected]_vars

\* a second scene object with the id of the first has been refused
C24_Witness ==
  /\ lastStep = "addScene"
  /\ outcome.kind = "threw"
  /\ outcome.arg # sceneMap[outcome.id]
  /\ Script_getScene(St, outcome.id) = sceneList[1]

\* ------------------------------------------------------------------------
\* C25: the ids of the scenes of a script are pairwise distinct; a scene
\* whose id is new is appended, so that it keeps the position at which it
\* was added; for the scene at each position, getScene of its id is that
\* scene, getSceneIndex of its id is that position and getSceneByIndex of
\* the position is that scene; an id the script does not have gives
\* undefined and -1, and an index outside the list gives undefined
\* ------------------------------------------------------------------------
LookupsAgree ==
  /\ \A i, j \in 1..Len(sceneList) :
       sceneObjects[sceneList[i]].id = sceneObjects[sceneList[j]].id => i = j
  /\ \A i \in 1..Len(sceneList) :
       LET o == sceneList[i]
       IN  /\ Script_getScene(St, sceneObjects[o].id) = o
           /\ Script_getSceneIndex(St, sceneObjects[o].id) = i - 1
           /\ Script_getSceneByIndex(St, i - 1) = o
  /\ \A id \in SceneNames :
       (\A i \in 1..Len(sceneList) : sceneObjects[sceneList[i]].id # id)
       => /\ Script_getScene(St, id) = Null
          /\ Script_getSceneIndex(St, id) = -1
  /\ Script_getSceneByIndex(St, -1) = Null
  /\ Script_getSceneByIndex(St, Len(sceneList)) = Null

NewSceneAppended ==
  (lastStep' = "addScene"
   /\ sceneObjects[outcome'.arg].id \notin DOMAIN sceneMap)
  => /\ outcome'.kind = "returned"
     /\ sceneList' = Append(sceneList, outcome'.arg)
     /\ UNCHANGED sceneObjects

C25_SceneLookups == []LookupsAgree /\ [][NewSceneAppended]_vars

\* a script of two scenes, the second of which is found at index 1, and an
\* id it does not have
C25_Witness ==
  /\ Len(sceneList) = 2
  /\ Script_getSceneIndex(St, sceneObjects[sceneList[2]].id) = 1
  /\ \E id \in SceneNames : Script_getScene(St, id) = Null

\* ------------------------------------------------------------------------
\* Vocabulary of the authoring properties
\* ------------------------------------------------------------------------
\* character c has been passed to the add of some scene
Added(c) == \E o \in DOMAIN sceneObjects : c \in sceneObjects[o].characters

\* the step is a call of say, show or hide
Acting == lastStep' \in { "say", "show", "hide" }

\* what the error says the character was to do
Doing(step) ==
  IF step = "say" THEN "speaking"
  ELSE IF step = "show" THEN "showing" ELSE "hiding"

\* the call has failed with the error of character c and queued nothing
FailedNotInScene(c) ==
  /\ outcome'.kind = "threw"
  /\ outcome'.id = << characterObjects[c].name, Doing(lastStep') >>
  /\ UNCHANGED << sceneObjects, characterObjects >>

\* ------------------------------------------------------------------------
\* C26 as stated: say, show and hide of a character that no scene has been
\* given by add fail with the error carrying its name, and queue nothing
\* ------------------------------------------------------------------------
NeverAddedFails ==
  (Acting /\ ~Added(outcome'.arg[1])) => FailedNotInScene(outcome'.arg[1])

C26_NeverAddedFails == [][NeverAddedFails]_vars

\* ------------------------------------------------------------------------
\* C26: say, show and hide of a character whose current scene reference
\* is null (it was never given to add nor assigned a scene, or null was
\* assigned to it since) fail with the error carrying its name and what it
\* was to do, and queue no action in any scene; with a scene reference the
\* call returns
\* ------------------------------------------------------------------------
UnboundFails ==
  Acting =>
    IF characterObjects[outcome'.arg[1]].currentScene = Null
    THEN FailedNotInScene(outcome'.arg[1])
    ELSE outcome'.kind = "returned"

C26_UnboundFails == [][UnboundFails]_vars

\* hide has failed for a character that a scene holds since add and that
\* was detached afterwards; the action of add is still the only one
C26_Witness ==
  /\ lastStep = "hide"
  /\ outcome.kind = "threw"
  /\ outcome.id = << "Alice", "hiding" >>
  /\ Alice \in sceneObjects[1].characters
  /\ Len(sceneObjects[1].actions) = 1

\* ------------------------------------------------------------------------
\* C27: Scene.add(character, options) makes the character a member of the
\* scene, makes the scene the character's current scene and appends one
\* show action of that character to the scene; in that action, and in the
\* one Character.show appends, the position is the one of the options if
\* they have one, else the one stored on the character when the call is
\* made, else undefined, and the size is found the same way on its own
\* ------------------------------------------------------------------------
\* the show action of character c queued under options opts
ShowAction(c, opts) ==
  [type |-> "show", character |-> c, text |-> Undefined,
   effect |-> Undefined,
   position |-> IF opts.position # Undefined THEN opts.position
                ELSE characterObjects[c].position,
   size |-> IF opts.size # Undefined THEN opts.size
            ELSE characterObjects[c].size,
   image |-> Undefined]

AddContract ==
  lastStep' = "add" =>
    LET o == outcome'.arg[1]
        c == outcome'.arg[2]
        opts == outcome'.arg[3]
    IN  /\ outcome'.kind = "returned"
        /\ sceneObjects'[o].actions =
             Append(sceneObjects[o].actions, ShowAction(c, opts))
        /\ sceneObjects'[o].characters = sceneObjects[o].characters \cup { c }
        /\ \A p \in DOMAIN sceneObjects \ { o } :
             sceneObjects'[p] = sceneObjects[p]
        /\ characterObjects' =
             [characterObjects EXCEPT ![c].currentScene = o]

ShowContract ==
  (lastStep' = "show"
   /\ characterObjects[outcome'.arg[1]].currentScene # Null) =>
    LET c == outcome'.arg[1]
        opts == outcome'.arg[2]
        o == characterObjects[c].currentScene
    IN  /\ sceneObjects'[o].actions =
             Append(sceneObjects[o].actions, ShowAction(c, opts))
        /\ UNCHANGED characterObjects

C27_AddAndShow == [][AddContract /\ ShowContract]_vars

\* add has queued a show action whose position is the stored one and whose
\* size is the one of the options, not the stored one
C27_Witness ==
  /\ lastStep = "add"
  /\ characterObjects[Alice].position = "left"
  /\ characterObjects[Alice].size = "big"
  /\ characterObjects[Alice].currentScene = 1
  /\ sceneObjects[1].actions # << >>
  /\ LET act == sceneObjects[1].actions[Len(sceneObjects[1].actions)]
     IN  act.position = "left" /\ act.size = "small"

\* ------------------------------------------------------------------------
\* C28: every call of the author (Scene.add, Scene.addAction, Character.say,
\* show, hide, the image setter) leaves each scene's action log as it was or
\* appends one action at its end, the earlier entries staying as they were
\* and in their order, and at most one log grows; an action appended by a
\* method of a character or by Scene.add has that character as its
\* character field
\* ------------------------------------------------------------------------
Grown(o) ==
  /\ Len(sceneObjects'[o].actions) = Len(sceneObjects[o].actions) + 1
  /\ SubSeq(sceneObjects'[o].actions, 1, Len(sceneObjects[o].actions)) =
       sceneObjects[o].actions

Kept(o) == sceneObjects'[o].actions = sceneObjects[o].actions

\* the character whose method, or whose addition to a scene, the step is
Producer ==
  IF lastStep' = "add" THEN outcome'.arg[2] ELSE outcome'.arg[1]

AppendOnly ==
  /\ DOMAIN sceneObjects' = DOMAIN sceneObjects
  /\ \A o \in DOMAIN sceneObjects : Kept(o) \/ Grown(o)
  /\ \A o, p \in DOMAIN sceneObjects : (Grown(o) /\ Grown(p)) => o = p
  /\ \A o \in DOMAIN sceneObjects :
       (Grown(o) /\ lastStep' \in { "add", "say", "show", "hide", "image" })
         => sceneObjects'[o].actions[Len(sceneObjects'[o].actions)].character
              = Producer

C28_AppendOnly == [][AppendOnly]_vars

\* Alice has spoken in a scene whose log already held the show action of
\* another character
C28_Witness ==
  /\ lastStep = "say"
  /\ outcome.kind = "returned"
  /\ Len(sceneObjects[1].actions) = 2
  /\ sceneObjects[1].actions[1].type = "show"
  /\ sceneObjects[1].actions[1].character # Alice
  /\ sceneObjects[1].actions[2].type = "dialogue"
  /\ sceneObjects[1].actions[2].character = Alice

\* ------------------------------------------------------------------------
\* C29: an assignment to Character.image stores the value on the character;
\* when the character has a current scene and the value is not undefined it
\* also appends one setImage action of the character with that value to
\* that scene, and in every other case no log changes
\* ------------------------------------------------------------------------
SetImageAction(c, value) ==
  [type |-> "setImage", character |-> c, text |-> Undefined,
   effect |-> Undefined, position |-> Undefined, size |-> Undefined,
   image |-> value]

ImageContract ==
  lastStep' = "image" =>
    LET c == outcome'.arg[1]
        value == outcome'.arg[2]
        o == characterObjects[c].currentScene
    IN  /\ outcome'.kind = "returned"
        /\ characterObjects' = [characterObjects EXCEPT ![c].image = value]
        /\ IF o # Null /\ value # Undefined
           THEN sceneObjects' =
                  [sceneObjects EXCEPT
                     ![o].actions = Append(@, SetImageAction(c, value))]
           ELSE UNCHANGED sceneObjects

C29_ImageSetter == [][ImageContract]_vars

\* the image of Alice was assigned while she was in scene 1
C29_Witness ==
  /\ lastStep = "image"
  /\ outcome.arg = << Alice, "alice-happy.png" >>
  /\ characterObjects[Alice].image = "alice-happy.png"
  /\ characterObjects[Alice].currentScene = 1
  /\ Len(sceneObjects[1].actions) = 2
  /\ sceneObjects[1].actions[2].type = "setImage"
  /\ sceneObjects[1].actions[2].image = "alice-happy.png"

\* ------------------------------------------------------------------------
\* C30: typewriter(element, text) empties the element; while no other
\* typewriter writes the element and the effect is not cancelled, the
\* element shows the first k characters of the text after k firings of the
\* timer, for every k up to the length n of the text; the firing after the
\* one that adds the last character adds nothing, stops the timer and
\* resolves the promise, which no earlier firing does
\* ------------------------------------------------------------------------
\* a is a typewriter, not cancelled (its flag is clear and cancel() has not
\* run its cleanup), the only typewriter on the element
Typing(a) ==
  /\ anims[a].kind = "typewriter"
  /\ ~anims[a].cancelled
  /\ anims[a].cleanups = 0
  /\ \A b \in DOMAIN anims \ { a } : anims[b].kind # "typewriter"

Resolved(a) == promises[anims[a].p].state = "fulfilled"

ShowsPrefix ==
  \A a \in DOMAIN anims :
    Typing(a) =>
      /\ anims[a].index <= Len(anims[a].text)
      /\ dialogueText = SubSeq(anims[a].text, 1, anims[a].index)
      /\ Resolved(a) <=> anims[a].completed
      /\ Resolved(a) <=> ~anims[a].timer
      /\ Resolved(a) => dialogueText = anims[a].text

\* typewriter() empties the element whatever it showed
StartsEmpty ==
  (lastStep' = "start" /\ DOMAIN anims' # DOMAIN anims) =>
    \A a \in DOMAIN anims' \ DOMAIN anims :
      anims'[a].kind = "typewriter" =>
        /\ dialogueText' = << >>
        /\ anims'[a].index = 0
        /\ anims'[a].timer
        /\ ~Resolved(a)'

\* a firing of the timer of the only typewriter
TickReveals ==
  lastStep' = "tick" =>
    \A a \in DOMAIN anims :
      Typing(a) =>
        IF anims[a].index < Len(anims[a].text)
        THEN /\ anims'[a].index = anims[a].index + 1
             /\ dialogueText' = SubSeq(anims[a].text, 1, anims[a].index + 1)
             /\ anims'[a].timer
             /\ ~Resolved(a)'
        ELSE /\ anims'[a].index = anims[a].index
             /\ dialogueText' = anims[a].text
             /\ ~anims'[a].timer
             /\ Resolved(a)'

C30_Typewriter == []ShowsPrefix /\ [][StartsEmpty /\ TickReveals]_vars

\* the typewriter of "hi" has resolved on its third firing
C30_Witness ==
  /\ lastStep = "tick"
  /\ \E a \in DOMAIN anims :
       /\ Typing(a)
       /\ anims[a].text = << "h", "i" >>
       /\ anims[a].index = 2
       /\ anims[a].completed
       /\ ~anims[a].timer
       /\ dialogueText = << "h", "i" >>

\* ------------------------------------------------------------------------
\* C31: the action index of the renderer is never negative and never past
\* the end of the current scene's action log
\* ------------------------------------------------------------------------
C31_IndexInRange ==
  /\ 0 <= currentActionIndex
  /\ currentActionIndex <= LogLen

\* ------------------------------------------------------------------------
\* C32: once the promise jobs have run, the renderer holds an animation
\* handle exactly when a dialogue effect it started is still in flight, and
\* the handle is the effect started last; the continuation of an earlier
\* displayDialogue never clears the handle of a later effect
\* ------------------------------------------------------------------------
\* the dialogue effects of the renderer that are still in flight
Flying == { a \in DOMAIN anims : InFlight(St, a) }

C32_HandleTracksAnimation ==
  microtasks = << >> =>
    /\ currentAnimation # Null <=> Flying # { }
    /\ currentAnimation # Null =>
         /\ currentAnimation \in Flying
         /\ \A b \in Flying : ~StartedBefore(St, currentAnimation, b)

\* ------------------------------------------------------------------------
\* C33: after a scene change, an effect started for a dialogue of the scene
\* that was left does not touch the playback of the new scene: a firing of
\* its timer leaves the displayed dialogue text as it is, and so does a
\* click that cancels it
\* ------------------------------------------------------------------------
\* effect a was started before the latest scene change
Stale(a) == anims[a].epoch < Epoch(St)

\* the step is a firing of the timer of a that adds a character
Ticked(a) ==
  /\ lastStep' = "tick"
  /\ DOMAIN anims' = DOMAIN anims
  /\ anims' = [anims EXCEPT ![a].index = @ + 1]

StaleTickSilent ==
  \A a \in DOMAIN anims :
    (Stale(a) /\ Ticked(a)) => dialogueText' = dialogueText

StaleCancelSilent ==
  (lastStep' = "cancel" /\ currentAnimation # Null /\ Stale(currentAnimation))
    => dialogueText' = dialogueText

C33_StaleAnimationInert == [][StaleTickSilent /\ StaleCancelSilent]_vars

\* ------------------------------------------------------------------------
\* C34: when the renderer has processed action i of a scene and the promise
\* jobs have run, the image shown for the character of that action, if the
\* character is visible, is the image the character had when action i was
\* queued
\* ------------------------------------------------------------------------
\* the src of the img element for an image of the character
Shown(image) == IF image = Undefined THEN "" ELSE resolveAssetPath(image)

C34_ReplayFaithful ==
  (/\ script # << >> /\ microtasks = << >>
   /\ OnAction /\ Processed(currentActionIndex))
  => LET i == currentActionIndex + 1
         c == sceneObjects[currentSceneId].actions[i].character
     IN  (c \in DOMAIN characterElements
          /\ characterElements[c].display = "block")
         => characterElements[c].img = Shown(imagesThen[currentSceneId][i])

\* ------------------------------------------------------------------------
\* C35: when a call of jumpTo or next returns, each listener of sceneChange
\* has been told of the scene changes the call made in the order in which
\* they were made, so that the last event it was given carries the scene id
\* that is current then, also when a listener called jumpTo during the
\* dispatch
\* ------------------------------------------------------------------------
\* the events listener l was given during the step, in order
HeardBy(l) ==
  LET mine == SelectSeq(heard', LAMBDA h : h.listener = l)
  IN  [i \in 1..Len(mine) |-> mine[i].event]

ListenersInStep == { heard'[i].listener : i \in 1..Len(heard') }

HeardInOrder ==
  (lastStep' \in { "jumpTo", "next" } /\ outcome'.kind = "returned") =>
    \A l \in ListenersInStep :
      /\ HeardBy(l) = events'
      /\ HeardBy(l)[Len(HeardBy(l))].sceneId = currentSceneId'

C35_HeardInOrder == [][HeardInOrder]_vars

\* ------------------------------------------------------------------------
\* C36: for an engine that is only constructed and called through jumpTo,
\* next and setVariable, the current scene is always a scene of the script,
\* the one of the latest jumpTo that went through (the constructor's start
\* scene before any), every id in sceneHistory is an id of the script,
\* jumpTo and next leave the variables alone, and setVariable leaves the
\* current scene and the history alone
\* ------------------------------------------------------------------------
\* the scene changes among the events of a step, in order
SceneChanges(evs) == SelectSeq(evs, LAMBDA e : e.type = "sceneChange")

InScript(id) == id \in 1..Len(script)

CurrentSceneDefined ==
  ~NoEngine =>
    /\ currentScene(St) # Null
    /\ InScript(currentSceneId)
    /\ \A i \in 1..Len(sceneHistory) : InScript(sceneHistory[i])
    /\ SceneChanges(events) # << >> =>
         currentSceneId =
           SceneChanges(events)[Len(SceneChanges(events))].sceneId

OwnOperations ==
  /\ (lastStep' = "jumpTo" /\ outcome'.kind = "returned") =>
       /\ SceneChanges(events') # << >>
       /\ SceneChanges(events')[1].sceneId = outcome'.arg
  /\ SceneChanges(events') = << >> =>
       UNCHANGED << currentSceneId, sceneHistory >>
  /\ lastStep' \in { "jumpTo", "next" } => variables' = variables
  /\ lastStep' = "setVariable" =>
       /\ UNCHANGED << currentSceneId, sceneHistory >>
       /\ variables' # << >>

C36_OwnOperations == []CurrentSceneDefined /\ [][OwnOperations]_vars

\* next() has moved on from the start scene after a variable was set
C36_Witness ==
  /\ lastStep = "next"
  /\ outcome.ret = "true"
  /\ sceneHistory # << >>
  /\ variables # << >>
  /\ InScript(currentSceneId)

\* ------------------------------------------------------------------------
\* C37: when playback reaches a dialogue action of a character, whatever
\* its text, the speaker name becomes the character's name, the text
\* element shows the text (an effect that types it starts from the empty
\* element) and the renderer stays on the action
\* ------------------------------------------------------------------------
\* the step has processed at least one action
Logged == Len(log') > Len(log) /\ log'[Len(log')].ev = "action"

\* the action processed last in the step
LoggedAction == script[log'[Len(log')].scene].actions[log'[Len(log')].idx + 1]

DialogueShown(act) ==
  /\ speakerName' = Characters[act.character].name
  /\ dialogueText' = IF act.effect = "typewriter" THEN << >> ELSE act.text
  /\ currentSceneId' = log'[Len(log')].scene
  /\ currentActionIndex' = log'[Len(log')].idx

DialogueDisplayed ==
  (Logged /\ LoggedAction.type = "dialogue" /\ LoggedAction.character # Null)
    => DialogueShown(LoggedAction)

C37_DialogueDisplayed == [][DialogueDisplayed]_vars

\* ------------------------------------------------------------------------
\* C38: the onComplete callback of an effect is called once when the effect
\* is over, by natural completion or by cancel(), and never a second time
\* ------------------------------------------------------------------------
C38_OnCompleteOnce ==
  \A a \in DOMAIN anims :
    /\ anims[a].onCompletes <= 1
    /\ ~InFlight(St, a) => anims[a].onCompletes = 1

\* ------------------------------------------------------------------------
\* C39: a scene change that lands on a scene without actions is followed at
\* once by the engine's next(): the renderer never waits at index 0 of an
\* empty scene that has a scene after it, and on an empty last scene the
\* dialogue text and the speaker name are cleared
\* ------------------------------------------------------------------------
OnEmptyScene ==
  /\ currentSceneId # Null
  /\ currentScene(St) # Null
  /\ CurActions = << >>
  /\ currentActionIndex = 0

C39_EmptySceneAdvances ==
  OnEmptyScene => (currentSceneId = Len(script) /\ Cleared)

====
